---- MODULE Spec2Model ----
(***************************************************************************)
(* Energy and carbon accounting of a fixed fleet of IT resources:          *)
(* the event store (database.py), the baseline integrator and the event    *)
(* overlay (energy_calculator.py), and the inventory reconciliation of the *)
(* textual report (report_generator.py).                                   *)
(*                                                                         *)
(* Units.  Instants and durations are whole seconds counted from midnight  *)
(* of day 0 (naive datetimes; every instant and duration of the model is a *)
(* multiple of 60 s).  Energies are integers in units of 1/1200 Wh, which  *)
(* makes power * seconds / 3600 and the 0.25 and 0.1 factors exact, so the *)
(* arithmetic is the exact arithmetic the floating-point code             *)
(* approximates.  Values rounded by round(x, 2) are kept in hundredths.    *)
(***************************************************************************)
EXTENDS Integers, Sequences, FiniteSets, TLC

VARIABLES
    data,             \* Database.data: resource_id -> record
    now,              \* the wall clock read by datetime.now()
    saved,            \* number of Database.save() calls of the run
    in_type,          \* argument resource_type of the function under check
    in_start,         \* argument start_date
    in_end,           \* argument end_date
    in_events,        \* argument events
    out_base,         \* result of _calculate_base_energy
    out_adjusted,     \* result of _adjust_energy_for_events
    pc,               \* position of the run
    week_events,      \* generate_co2_report: the filtered events
    acc,              \* calculate_weekly_energy: the locals before rounding
    energy_data,      \* calculate_weekly_energy: the returned document
    resource_details, \* generate_textual_report: the per-resource list
    resource_summary, \* _fallback_co2_advice: its argument
    advices,          \* the advices of the textual report
    carbon_footprint, \* evaluate_carbon_footprint: the returned document
    report,           \* generate_report: the returned document
    output_file,      \* generate_co2_report: the JSON file as written
    textual_output_file \* generate_co2_report: the text file as written

\* the variables of the calls that involve the LLM service
llm_vars == <<resource_summary, advices, carbon_footprint, report,
              output_file, textual_output_file>>

vars == <<data, now, saved, in_type, in_start, in_end, in_events, out_base,
          out_adjusted, pc, week_events, acc, energy_data, resource_details,
          llm_vars>>

-----------------------------------------------------------------------------
(* Units *)

Hour == 3600
Day == 24 * Hour
Week == 7 * Day

\* the instant at which the run starts
StartOfRun == Day + Week

\* one grain of the clock
Grain == Hour \div 60

\* the clock advances at most this many grains during one report
MaxTicks == 1

\* x watt-hours in energy units
Wh(x) == x * 1200

\* power (W) drawn for secs seconds, times num/den, in energy units
Energy(power, secs, num, den) == (power * secs * num) \div (3 * den)

\* Python round(x / d) on exact values: round half to even
RoundDiv(x, d) ==
    LET q == x \div d
        r == x % d
    IN  IF 2 * r < d THEN q
        ELSE IF 2 * r > d THEN q + 1
        ELSE IF q % 2 = 0 THEN q ELSE q + 1

\* round(v, 2) of an energy v, in hundredths of a Wh
Round2(v) == RoundDiv(v, 12)

\* round(v / 1000.0, 2) of an energy v, in hundredths of a kWh
Round2Kwh(v) == RoundDiv(v, 12000)

-----------------------------------------------------------------------------
(* energy_calculator.py: the tables *)

ResourceTypes == {"server", "workstation", "automate", "internet_gateway"}

\* the order in which the dictionaries are iterated
TypeOrder == <<"server", "workstation", "automate", "internet_gateway">>

POWER_CONSUMPTION(resource_type, period) ==
    CASE resource_type = "server" /\ period = "production" -> 100
      [] resource_type = "server" /\ period = "night" -> 70
      [] resource_type = "workstation" /\ period = "production" -> 60
      [] resource_type = "workstation" /\ period = "night" -> 0
      [] resource_type = "automate" /\ period = "production" -> 300
      [] resource_type = "automate" /\ period = "night" -> 0
      [] resource_type = "internet_gateway" /\ period = "always" -> 50

PRODUCTION_START_HOUR == 8
PRODUCTION_END_HOUR == 20

PRODUCTION_INVENTORY ==
    [t \in ResourceTypes |->
        CASE t = "server" -> 10
          [] t = "workstation" -> 20
          [] t = "automate" -> 5
          [] t = "internet_gateway" -> 1]

\* datetime.hour
HourOf(t) == (t \div Hour) % 24

\* current.replace(minute=0, second=0, microsecond=0) + timedelta(hours=1)
NextHour(t) == (t \div Hour) * Hour + Hour

\* the power of a production/night profile at instant t
PowerAt(resource_type, t) ==
    IF PRODUCTION_START_HOUR <= HourOf(t) /\ HourOf(t) < PRODUCTION_END_HOUR
    THEN POWER_CONSUMPTION(resource_type, "production")
    ELSE POWER_CONSUMPTION(resource_type, "night")

-----------------------------------------------------------------------------
(* EnergyCalculator._calculate_base_energy *)

\* The while loop of lines 155-174, run from `current` until `stop`: one
\* iteration per hour-aligned sub-interval, its power chosen by the hour of
\* day at its start, its end clamped to end_date.
RECURSIVE HourWalkNoClamp(_, _, _, _, _)
HourWalkNoClamp(resource_type, current, stop, end_date, energy) ==
    IF current < stop
    THEN LET power == PowerAt(resource_type, current)
             next_hour == NextHour(current)
         IN  HourWalkNoClamp(resource_type, next_hour, stop, end_date,
                             energy + Energy(power, next_hour - current, 1, 1))
    ELSE energy

RECURSIVE HourWalk(_, _, _, _, _)
HourWalk(resource_type, current, stop, end_date, energy) ==
    IF current < stop
    THEN LET power == PowerAt(resource_type, current)
             nh == NextHour(current)
             next_hour == IF nh > end_date THEN end_date ELSE nh
         IN  HourWalk(resource_type, next_hour, stop, end_date,
                      energy + Energy(power, next_hour - current, 1, 1))
    ELSE energy

\* midnight after t
NextMidnight(t) == (t \div Day) * Day + Day

\* The same loop, evaluated one calendar day of iterations at a time (the
\* sum of the sub-intervals' energies, grouped by day).
RECURSIVE BaseWalk(_, _, _, _)
BaseWalk(resource_type, current, end_date, energy) ==
    IF current < end_date
    THEN LET nm == NextMidnight(current)
             stop == IF nm > end_date THEN end_date ELSE nm
         IN  BaseWalk(resource_type, stop, end_date,
                      energy + HourWalk(resource_type, current, stop, end_date, 0))
    ELSE energy

\* timedelta.seconds in place of timedelta.total_seconds()
BaseEnergySecondsOnly(resource_type, start_date, end_date) ==
    IF resource_type = "internet_gateway"
    THEN Energy(POWER_CONSUMPTION("internet_gateway", "always"),
                (end_date - start_date) % Day, 1, 1)
    ELSE BaseWalk(resource_type, start_date, end_date, 0)

_calculate_base_energy(resource_type, start_date, end_date) ==
    IF resource_type = "internet_gateway"
    THEN Energy(POWER_CONSUMPTION("internet_gateway", "always"),
                end_date - start_date, 1, 1)
    ELSE BaseWalk(resource_type, start_date, end_date, 0)

-----------------------------------------------------------------------------
(* Events.  A field of an event document is a tagged value, so that the   *)
(* outcomes of parsing it are the outcomes of the Python conversions:     *)
(*   duration_event            int(float(duration_str))                   *)
(*     "num"      a numeric string or number of secs seconds              *)
(*     "missing"  no such key: the default '0'                             *)
(*     "bad"      ValueError ("abc", "", "nan") or TypeError (None)        *)
(*     "inf"      OverflowError ("inf", "1e999"), which no handler catches *)
(*   timestamp_*_event         datetime.fromisoformat(...)                 *)
(*     "iso"      an ISO-8601 string of instant t (a time zone suffix is   *)
(*                dropped without conversion)                              *)
(*     "missing"  no such key, '' or None                                  *)
(*     "bad"      ValueError (non-ISO text)                                *)
(*     "nonstr"   a non-empty non-string value: .endswith raises           *)
(*                AttributeError, which no handler catches                 *)

Num(secs) == [kind |-> "num", secs |-> secs]
NoDuration == [kind |-> "missing", secs |-> 0]
BadDuration == [kind |-> "bad", secs |-> 0]
InfDuration == [kind |-> "inf", secs |-> 0]

Iso(t) == [kind |-> "iso", t |-> t]
NoTs == [kind |-> "missing", t |-> 0]
BadTs == [kind |-> "bad", t |-> 0]
NonStrTs == [kind |-> "nonstr", t |-> 0]

Prob(p) == [kind |-> "num", p |-> p]
NoProb == [kind |-> "missing", p |-> 0]

\* event.get('event_id') of an event without the key
None == "None"

Event(id, type, duration, start, end) ==
    [event_id |-> id, event_type |-> type, duration_event |-> duration,
     timestamp_start_event |-> start, timestamp_end_event |-> end,
     stored_at |-> NoTs, failure_probability |-> NoProb]

\* 'maintenance_stop' in event_type
HasMaintenanceStop(event_type) ==
    event_type \in {"hardware_maintenance_stop", "software_maintenance_stop"}

\* 'failure' in event_type, for the types that do not name an update
HasFailureNoUpdate(event_type) ==
    event_type \in {"hardware_failure", "operating_system_failure",
                    "software_service_failure"}

\* 'failure' in event_type
HasFailure(event_type) ==
    event_type \in {"hardware_failure", "operating_system_failure",
                    "software_service_failure", "update_failure"}

\* 'update' in event_type
HasUpdate(event_type) ==
    event_type \in {"software_update", "operating_system_update",
                    "update_failure"}

-----------------------------------------------------------------------------
(* EnergyCalculator._adjust_energy_for_events *)

Ok(v) == [status |-> "ok", value |-> v]
Raised == [status |-> "raise", value |-> 0]
NotRun == [status |-> "none", value |-> 0]

\* production hours that start after PRODUCTION_START_HOUR
PowerDuringEventLate(resource_type, event_start) ==
    IF resource_type = "internet_gateway"
    THEN POWER_CONSUMPTION("internet_gateway", "always")
    ELSE IF PRODUCTION_START_HOUR < HourOf(event_start)
            /\ HourOf(event_start) < PRODUCTION_END_HOUR
         THEN POWER_CONSUMPTION(resource_type, "production")
         ELSE POWER_CONSUMPTION(resource_type, "night")

\* lines 239-247: the power the event is charged at
PowerDuringEvent(resource_type, event_start) ==
    IF resource_type = "internet_gateway"
    THEN POWER_CONSUMPTION("internet_gateway", "always")
    ELSE PowerAt(resource_type, event_start)

\* the body of the loop for one event: "skip" is continue, "raise" an
\* exception that leaves the function, "delta" the change of adjusted_energy
EventEffect(resource_type, event, start_date, end_date) ==
    LET d == event.duration_event
        ts == event.timestamp_start_event
        te == event.timestamp_end_event
        duration_seconds == d.secs
        event_start == ts.t
        power_during_event == PowerDuringEvent(resource_type, event_start)
        event_type == event.event_type
    IN  IF d.kind = "bad" THEN [kind |-> "skip", delta |-> 0]
        ELSE IF d.kind = "inf" THEN [kind |-> "raise", delta |-> 0]
        ELSE IF ts.kind = "missing" THEN [kind |-> "skip", delta |-> 0]
        ELSE IF ts.kind = "nonstr" THEN [kind |-> "raise", delta |-> 0]
        ELSE IF ts.kind = "bad" THEN [kind |-> "skip", delta |-> 0]
        ELSE IF te.kind = "nonstr" THEN [kind |-> "raise", delta |-> 0]
        ELSE IF te.kind = "bad" THEN [kind |-> "skip", delta |-> 0]
        ELSE IF event_start < start_date \/ event_start > end_date
             THEN [kind |-> "skip", delta |-> 0]
        \* 'maintenance_stop' in None raises TypeError
        ELSE IF event_type = None THEN [kind |-> "raise", delta |-> 0]
        ELSE IF HasMaintenanceStop(event_type) \/ HasFailure(event_type)
             THEN [kind |-> "delta",
                   delta |-> 0 - Energy(power_during_event, duration_seconds, 1, 1)]
        ELSE IF event_type = "cpu_overflow" \/ event_type = "cpu_overload"
             THEN [kind |-> "delta",
                   delta |-> Energy(power_during_event, duration_seconds, 1, 4)]
        ELSE IF HasUpdate(event_type)
             THEN [kind |-> "delta",
                   delta |-> Energy(power_during_event, duration_seconds, 1, 10)]
        ELSE [kind |-> "delta", delta |-> 0]

\* the sum returned as it is
NoClamp(adjusted_energy) == adjusted_energy

\* max(0, adjusted_energy)
Clamp(adjusted_energy) == IF adjusted_energy > 0 THEN adjusted_energy ELSE 0

RECURSIVE AdjustLoop(_, _, _, _, _, _)
AdjustLoop(adjusted_energy, resource_type, events, i, start_date, end_date) ==
    IF i > Len(events)
    THEN Ok(Clamp(adjusted_energy))
    ELSE LET eff == EventEffect(resource_type, events[i], start_date, end_date)
         IN  IF eff.kind = "raise" THEN Raised
             ELSE AdjustLoop(adjusted_energy + eff.delta, resource_type, events,
                             i + 1, start_date, end_date)

_adjust_energy_for_events(base, resource_type, events, start_date, end_date) ==
    AdjustLoop(base, resource_type, events, 1, start_date, end_date)

-----------------------------------------------------------------------------
(* Inputs of the function-level specifications *)

\* the longest list of events given to _adjust_energy_for_events
MaxEvents == 2

EmptyData == [r \in {} |-> 0]

\* start instants: every hour of day 1, on and off the hour boundary
BaseStarts == {Day + h * Hour + off : h \in 0..23, off \in {0, 60, 1800, 3540}}

\* window lengths: empty, partial hours, one day, the week, end before start
BaseLengths == {0, 60, 5400, Day, Day + 5400, Week, 0 - Hour, 0 - Week}

\* the two accounting windows of SpecAdjust start at 00:00 and at 13:30
AdjustStarts == {Day, Day + 13 * Hour + 1800}

T10 == 2 * Day + 10 * Hour
T22 == 2 * Day + 22 * Hour
TwoHours == 2 * Hour

CorePool ==
    { Event("e1", "hardware_maintenance_stop", Num(TwoHours), Iso(T10), NoTs),
      Event("e2", "hardware_failure", Num(2 * Week), Iso(T22), NoTs),
      Event("e3", "hardware_failure", Num(0 - TwoHours), Iso(T10), NoTs),
      Event("e4", "cpu_overload", Num(TwoHours), Iso(T10), Iso(T10 + TwoHours)),
      Event("e5", "software_update", Num(TwoHours), Iso(T22), NoTs),
      Event("e6", "reboot", Num(TwoHours), Iso(T10), NoTs),
      Event("e7", "hardware_maintenance_stop", Num(TwoHours), Iso(Day + 9 * Hour), NoTs),
      Event("e8", "hardware_maintenance_stop", BadDuration, Iso(T10), NoTs),
      Event("e9", "hardware_maintenance_stop", Num(TwoHours), NoTs, NoTs),
      Event("e10", "hardware_maintenance_stop", Num(TwoHours), Iso(Day + Week), NoTs),
      Event("e11", "hardware_maintenance_stop", InfDuration, Iso(T10), NoTs),
      Event("e12", "hardware_maintenance_stop", Num(TwoHours), NonStrTs, NoTs),
      Event("e13", "hardware_maintenance_stop", Num(TwoHours), Iso(T10), BadTs),
      Event("e14", "update_failure", Num(TwoHours), Iso(T10), NoTs),
      Event("e15", "cpu_overflow", Num(TwoHours), Iso(T22), NoTs),
      Event("e16", "cpu_overload_warning", Num(TwoHours), Iso(T10), NoTs),
      Event("e17", None, Num(TwoHours), Iso(T10), NoTs) }

\* one two-hour maintenance stop at every half hour of day 3
WidePool ==
    { Event("w", "hardware_maintenance_stop", Num(TwoHours),
            Iso(3 * Day + h * Hour + off), NoTs) : h \in 0..23, off \in {0, 1800} }

SeqsUpTo(S, n) == UNION {[1..k -> S] : k \in 0..n}

InputEventLists == SeqsUpTo(CorePool, MaxEvents) \cup {<<e>> : e \in WidePool}

\* the variables a specification does not use
StoreIdle == data = EmptyData /\ now = Day + Week /\ saved = 0
ReportIdle ==
    /\ week_events = NotRun
    /\ acc = NotRun
    /\ energy_data = NotRun
    /\ resource_details = NotRun
LlmIdle ==
    /\ resource_summary = NotRun
    /\ advices = NotRun
    /\ carbon_footprint = NotRun
    /\ report = NotRun
    /\ output_file = NotRun
    /\ textual_output_file = NotRun
FunctionIdle ==
    /\ in_type = "server"
    /\ in_start = 0
    /\ in_end = 0
    /\ in_events = <<>>
    /\ out_base = NotRun
    /\ out_adjusted = NotRun

-----------------------------------------------------------------------------
(* SpecBase: _calculate_base_energy applied to every window of the inputs *)

InitBase ==
    /\ in_type \in ResourceTypes
    /\ in_start \in BaseStarts
    /\ in_end \in {in_start + l : l \in BaseLengths}
    /\ in_events = <<>>
    /\ out_base = NotRun
    /\ out_adjusted = NotRun
    /\ pc = "input"
    /\ StoreIdle
    /\ ReportIdle
    /\ LlmIdle

CalcBase ==
    /\ pc = "input"
    /\ out_base' = Ok(_calculate_base_energy(in_type, in_start, in_end))
    /\ pc' = "base"
    /\ UNCHANGED <<llm_vars, data, now, saved, in_type, in_start, in_end, in_events,
                   out_adjusted, week_events, acc, energy_data, resource_details>>

NextBase == CalcBase

SpecBase == InitBase /\ [][NextBase]_vars

-----------------------------------------------------------------------------
(* SpecAdjust: _adjust_energy_for_events applied to every list of events   *)
(* of the inputs, with the base energy of the window as its first argument *)

InitAdjust ==
    /\ in_type \in ResourceTypes
    /\ in_start \in AdjustStarts
    /\ in_end = in_start + Week
    /\ in_events \in InputEventLists
    /\ out_base = NotRun
    /\ out_adjusted = NotRun
    /\ pc = "input"
    /\ StoreIdle
    /\ ReportIdle
    /\ LlmIdle

Adjust ==
    /\ pc = "base"
    /\ out_adjusted' = _adjust_energy_for_events(out_base.value, in_type,
                                                 in_events, in_start, in_end)
    /\ pc' = "adjusted"
    /\ UNCHANGED <<llm_vars, data, now, saved, in_type, in_start, in_end, in_events,
                   out_base, week_events, acc, energy_data, resource_details>>

NextAdjust == CalcBase \/ Adjust

SpecAdjust == InitAdjust /\ [][NextAdjust]_vars

-----------------------------------------------------------------------------
(* database.py: Database.add_event and Database.save *)

\* any(e.get('event_id') == event_id for e in existing_events), looking at
\* the last stored event only
EventExistsLastOnly(existing_events, event_id) ==
    /\ Len(existing_events) > 0
    /\ existing_events[Len(existing_events)].event_id = event_id

\* any(e.get('event_id') == event_id for e in existing_events)
EventExists(existing_events, event_id) ==
    \E i \in 1..Len(existing_events) : existing_events[i].event_id = event_id

\* the index at which the for loop of lines 75-79 breaks
FirstIndex(existing_events, event_id) ==
    CHOOSE i \in 1..Len(existing_events) :
        /\ existing_events[i].event_id = event_id
        /\ \A j \in 1..(i - 1) : existing_events[j].event_id # event_id

\* lines 60-61: the event as add_event leaves it in the caller's dictionary
Stamped(event, t) ==
    IF event.stored_at.kind = "missing"
    THEN [event EXCEPT !.stored_at = Iso(t)]
    ELSE event

\* lines 51-57: the record of resource_id, created on its first event
WithResource(d, resource_id, resource_type, t) ==
    IF resource_id \in DOMAIN d
    THEN d
    ELSE [r \in DOMAIN d \cup {resource_id} |->
            IF r \in DOMAIN d
            THEN d[r]
            ELSE [type |-> resource_type, events |-> <<>>,
                  created_at |-> t, updated_at |-> t]]

\* an upsert that drops the stored entry and appends the new one
add_event_move_to_end(d, resource_id, resource_type, event, t) ==
    LET d1 == WithResource(d, resource_id, resource_type, t)
        ev == Stamped(event, t)
        existing_events == d1[resource_id].events
        kept == SelectSeq(existing_events, LAMBDA e : e.event_id # ev.event_id)
    IN  [d1 EXCEPT ![resource_id].events = Append(kept, ev),
                   ![resource_id].updated_at = t]

\* an upsert that moves updated_at only when the stored events change
add_event_bump_on_change(d, resource_id, resource_type, event, t) ==
    LET d1 == WithResource(d, resource_id, resource_type, t)
        ev == Stamped(event, t)
        existing_events == d1[resource_id].events
        events == IF ~EventExists(existing_events, ev.event_id)
                  THEN Append(existing_events, ev)
                  ELSE [existing_events EXCEPT ![FirstIndex(existing_events, ev.event_id)] = ev]
    IN  IF events = existing_events
        THEN d1
        ELSE [d1 EXCEPT ![resource_id].events = events, ![resource_id].updated_at = t]

\* Database.add_event, every datetime.now() of the call reading t
add_event(d, resource_id, resource_type, event, t) ==
    LET d1 == WithResource(d, resource_id, resource_type, t)
        ev == Stamped(event, t)
        event_id == ev.event_id
        existing_events == d1[resource_id].events
    IN  IF ~EventExists(existing_events, event_id)
        THEN [d1 EXCEPT ![resource_id].events = Append(existing_events, ev),
                        ![resource_id].updated_at = t]
        ELSE [d1 EXCEPT ![resource_id].events[FirstIndex(existing_events, event_id)] = ev,
                        ![resource_id].updated_at = t]

-----------------------------------------------------------------------------
(* Spec: ingestion (main.py, process_input_file) into an empty store *)

\* the number of events one run ingests
MaxCalls == 4

ResourceIds == {"server_1", "pc_7"}

\* the events of the input document, with the failure probability (in
\* hundredths) that process_input_file attaches before storing them
IngestEvent(id, type, p) ==
    [Event(id, type, Num(TwoHours), Iso(T10), NoTs)
        EXCEPT !.failure_probability = Prob(p)]

IngestPool ==
    { IngestEvent("e1", "hardware_failure", 90),
      IngestEvent("e1", "hardware_failure", 30),
      IngestEvent(None, "hardware_failure", 90),
      IngestEvent(None, "cpu_overflow", 50),
      [IngestEvent("e2", "software_update", 10) EXCEPT !.stored_at = Iso(T10)] }

\* the resource types a call can name: the type is read only when the
\* resource is created
TypesFor(resource_id) ==
    IF resource_id \in DOMAIN data THEN {"server"} ELSE {"server", "workstation"}

Init ==
    /\ data = EmptyData
    /\ now = StartOfRun
    /\ saved = 0
    /\ pc = "ingest"
    /\ FunctionIdle
    /\ ReportIdle
    /\ LlmIdle

\* one iteration of the loop of lines 53-61: the event, with its failure
\* probability attached, is stored; the clock moves on by one grain
AddEvent(resource_id, resource_type, event) ==
    /\ pc = "ingest"
    /\ now < StartOfRun + MaxCalls * Grain
    /\ data' = add_event(data, resource_id, resource_type, event, now)
    /\ now' = now + Grain
    /\ UNCHANGED <<llm_vars, saved, pc, in_type, in_start, in_end, in_events, out_base,
                   out_adjusted, week_events, acc, energy_data, resource_details>>

\* lines 63-65: Database.save() ends process_input_file
Save ==
    /\ pc = "ingest"
    /\ saved' = saved + 1
    /\ pc' = "saved"
    /\ UNCHANGED <<llm_vars, data, now, in_type, in_start, in_end, in_events, out_base,
                   out_adjusted, week_events, acc, energy_data, resource_details>>

Next ==
    \/ \E resource_id \in ResourceIds :
         \E resource_type \in TypesFor(resource_id), event \in IngestPool :
            AddEvent(resource_id, resource_type, event)
    \/ Save

Spec == Init /\ [][Next]_vars

-----------------------------------------------------------------------------
(* main.py: ResourceEventProcessor._filter_events_by_date_range *)

\* lines 129-148: the events of one resource that start in [start_date, end_date]
FilteredEvents(events, start_date, end_date) ==
    SelectSeq(events,
              LAMBDA e : /\ e.timestamp_start_event.kind = "iso"
                         /\ start_date <= e.timestamp_start_event.t
                         /\ e.timestamp_start_event.t <= end_date)

\* a timestamp that is no string leaves the function by AttributeError
_filter_events_by_date_range(events, start_date, end_date) ==
    IF \E r \in DOMAIN events : \E i \in 1..Len(events[r].events) :
           events[r].events[i].timestamp_start_event.kind = "nonstr"
    THEN Raised
    ELSE Ok([r \in {x \in DOMAIN events :
                       FilteredEvents(events[x].events, start_date, end_date) # <<>>} |->
               [type |-> events[r].type,
                events |-> FilteredEvents(events[r].events, start_date, end_date)]])

-----------------------------------------------------------------------------
(* energy_calculator.py: EnergyCalculator.calculate_weekly_energy *)

\* the resources of events_data whose type is resource_type
OfType(events_data, resource_type) ==
    {r \in DOMAIN events_data : events_data[r].type = resource_type}

\* lines 95-97 for one resource
AdjustedOf(events_data, r, base_energy_per_resource, start_date, end_date) ==
    _adjust_energy_for_events(base_energy_per_resource, events_data[r].type,
                              events_data[r].events, start_date, end_date)

\* lines 91-101: the sum of energy_delta over the resources in rs
RECURSIVE SumDelta(_, _, _, _, _)
SumDelta(rs, events_data, base_energy_per_resource, start_date, end_date) ==
    IF rs = {} THEN 0
    ELSE LET r == CHOOSE x \in rs : TRUE
             adjusted == AdjustedOf(events_data, r, base_energy_per_resource,
                                    start_date, end_date).value
         IN  (adjusted - base_energy_per_resource)
             + SumDelta(rs \ {r}, events_data, base_energy_per_resource,
                        start_date, end_date)

\* lines 81-115: total_adjusted_energy of one resource type
TotalAdjustedEnergy(resource_type, events_data, base_energy_per_resource, start_date, end_date) ==
    LET count == PRODUCTION_INVENTORY[resource_type]
        total_base_energy == base_energy_per_resource * count
        resources_with_events ==
            Cardinality(OfType(events_data, resource_type))
        resources_without_events == count - resources_with_events
    IN  total_base_energy
        + SumDelta(OfType(events_data, resource_type), events_data,
                   base_energy_per_resource, start_date, end_date)
        + (IF resources_without_events > 0
           THEN base_energy_per_resource * resources_without_events
           ELSE 0)

\* line 118 adding the rounded energy of the type to the total
AfterTypeRounded(st, resource_type, total_adjusted_energy) ==
    [total_energy_wh |-> st.total_energy_wh + 12 * Round2(total_adjusted_energy),
     energy_by_type |->
         [st.energy_by_type EXCEPT ![resource_type] = total_adjusted_energy]]

\* lines 117-118: the accumulators after one resource type
AfterType(st, resource_type, total_adjusted_energy) ==
    [total_energy_wh |-> st.total_energy_wh + total_adjusted_energy,
     energy_by_type |->
         [st.energy_by_type EXCEPT ![resource_type] = total_adjusted_energy]]

\* lines 80-118: the loop over PRODUCTION_INVENTORY from its i-th type on
RECURSIVE WeeklyLoop(_, _, _, _, _, _)
WeeklyLoop(i, st, events_data, bases, start_date, end_date) ==
    IF i > Len(TypeOrder) THEN st
    ELSE WeeklyLoop(i + 1,
             AfterType(st, TypeOrder[i],
                       TotalAdjustedEnergy(TypeOrder[i], events_data,
                                           bases[TypeOrder[i]], start_date, end_date)),
             events_data, bases, start_date, end_date)

\* lines 103-108: resources[resource_id]
ResourceEnergy(events_data, r, base_energy_per_resource, start_date, end_date) ==
    [type |-> events_data[r].type,
     base_energy_wh |-> base_energy_per_resource,
     adjusted_energy_wh |->
         AdjustedOf(events_data, r, base_energy_per_resource,
                    start_date, end_date).value,
     events_count |-> Len(events_data[r].events)]

\* an exception of _adjust_energy_for_events leaves calculate_weekly_energy
WeeklyRaises(events_data, start_date, end_date) ==
    \E r \in DOMAIN events_data :
        /\ events_data[r].type \in ResourceTypes
        /\ AdjustedOf(events_data, r, 0, start_date, end_date).status = "raise"

\* the instants the clock shows during a report
ClockValues == {StartOfRun + k * Grain : k \in 0..MaxTicks}

\* line 82 for every type, and lines 158-162 and 195-199 of the report
\* generator: the base energy over the week that ends at end_date, for every
\* end_date the clock can show
WeekBaseEnergies ==
    [end_date \in ClockValues |->
        [t \in ResourceTypes |->
            _calculate_base_energy(t, end_date - Week, end_date)]]

BaseEnergies(end_date) == WeekBaseEnergies[end_date]

\* lines 62-68
WeeklyStart ==
    [total_energy_wh |-> 0, energy_by_type |-> [t \in ResourceTypes |-> 0]]

\* the locals at line 119, full precision
WeeklyLocals(events_data, end_date) ==
    LET start_date == end_date - Week
        bases == BaseEnergies(end_date)
        st == WeeklyLoop(1, WeeklyStart, events_data, bases, start_date, end_date)
    IN  IF WeeklyRaises(events_data, start_date, end_date)
        THEN Raised
        ELSE [status |-> "ok",
              total_energy_wh |-> st.total_energy_wh,
              energy_by_type |-> st.energy_by_type,
              resources |->
                  [r \in {x \in DOMAIN events_data :
                             events_data[x].type \in ResourceTypes} |->
                      ResourceEnergy(events_data, r, bases[events_data[r].type],
                                     start_date, end_date)]]

\* lines 120-131: the returned document; total_energy_wh and energy_by_type
\* in hundredths of a Wh, total_energy_kwh in hundredths of a kWh
calculate_weekly_energy(locals, end_date) ==
    IF locals.status # "ok"
    THEN Raised
    ELSE [status |-> "ok",
          total_energy_wh |-> Round2(locals.total_energy_wh),
          total_energy_kwh |-> Round2Kwh(locals.total_energy_wh),
          energy_by_type |->
              [t \in ResourceTypes |-> Round2(locals.energy_by_type[t])],
          energy_by_resource |-> locals.resources,
          production_inventory |-> PRODUCTION_INVENTORY,
          period |-> [start |-> end_date - Week, end |-> end_date, days |-> 7]]

-----------------------------------------------------------------------------
(* report_generator.py: ReportGenerator.generate_textual_report, lines     *)
(* 137-225: the per-resource list.  energy_kwh is kept in the energy unit  *)
(* (1/1200 Wh) and co2_kg = energy_kwh * 0.5 in the same integer, so that *)
(* one unit of co2_kg is 1/2400000 kg.  failure_probability is the        *)
(* fraction num/den of hundredths.  The dictionaries are iterated in a    *)
(* fixed order.                                                            *)

RECURSIVE SetToSeq(_)
SetToSeq(S) ==
    IF S = {} THEN <<>>
    ELSE LET x == CHOOSE y \in S : TRUE IN <<x>> \o SetToSeq(S \ {x})

\* f"{resource_type}_{counter}"
SynthId(resource_type, counter) == resource_type \o "_" \o ToString(counter)

\* lines 170-171: the probabilities of the events that carry one
RECURSIVE ProbSum(_, _)
ProbSum(events, i) ==
    IF i > Len(events) THEN [num |-> 0, den |-> 0]
    ELSE LET rest == ProbSum(events, i + 1)
             fp == events[i].failure_probability
         IN  IF fp.kind = "num"
             THEN [num |-> rest.num + fp.p, den |-> rest.den + 1]
             ELSE rest

\* lines 169-173: avg_failure_prob
AvgFailureProb(events) ==
    LET ps == ProbSum(events, 1)
    IN  IF ps.den = 0 THEN [num |-> 0, den |-> 1] ELSE ps

\* lines 150-182: the entry of a resource of the store
HistoricalDetail(r, all_resources, energy_by_resource, bases) ==
    LET resource_type == all_resources[r].type
        resource_events == all_resources[r].events
        energy_wh == IF r \in DOMAIN energy_by_resource
                     THEN energy_by_resource[r].adjusted_energy_wh
                     ELSE bases[resource_type]
    IN  [id |-> r, type |-> resource_type, co2_kg |-> energy_wh,
         energy_kwh |-> energy_wh,
         failure_probability |-> AvgFailureProb(resource_events),
         events_count |-> Len(resource_events)]

\* lines 214-221: the entry of an instance without events
SynthDetail(resource_id, resource_type, base_energy) ==
    [id |-> resource_id, type |-> resource_type, co2_kg |-> base_energy,
     energy_kwh |-> base_energy,
     failure_probability |-> [num |-> 0, den |-> 1], events_count |-> 0]

\* the counter as it stands, taken or not
FirstFreeNoSkip(resource_type, counter, existing_ids) == counter

\* lines 207-212: the first counter from `counter` on whose id is not taken
RECURSIVE FirstFree(_, _, _)
FirstFree(resource_type, counter, existing_ids) ==
    IF SynthId(resource_type, counter) \notin existing_ids
    THEN counter
    ELSE FirstFree(resource_type, counter + 1, existing_ids)

\* lines 205-222: `remaining` more instances of resource_type; st holds
\* resource_details and existing_ids
RECURSIVE SynthLoop(_, _, _, _, _)
SynthLoop(resource_type, remaining, counter, base_energy, st) ==
    IF remaining <= 0 THEN st
    ELSE LET c == FirstFree(resource_type, counter, st.existing_ids)
             resource_id == SynthId(resource_type, c)
         IN  SynthLoop(resource_type, remaining - 1, c + 1, base_energy,
                 [details |-> Append(st.details,
                                     SynthDetail(resource_id, resource_type,
                                                 base_energy)),
                  existing_ids |-> st.existing_ids \cup {resource_id}])

\* line 190 counting the resources of the week's events
ResourcesWithEventsInWeek(all_resources, energy_by_resource, resource_type) ==
    Cardinality({r \in DOMAIN energy_by_resource :
                    energy_by_resource[r].type = resource_type})

\* line 190: resources_with_events
ResourcesWithEvents(all_resources, energy_by_resource, resource_type) ==
    Cardinality(OfType(all_resources, resource_type))

\* lines 188-222: the loop over production_inventory from its i-th type on
RECURSIVE InventoryLoop(_, _, _, _, _, _)
InventoryLoop(i, st, all_resources, energy_by_resource, production_inventory, bases) ==
    IF i > Len(TypeOrder) THEN st
    ELSE LET resource_type == TypeOrder[i]
             count == production_inventory[resource_type]
             resources_with_events ==
                 ResourcesWithEvents(all_resources, energy_by_resource, resource_type)
             resources_without_events == count - resources_with_events
         IN  InventoryLoop(i + 1,
                 SynthLoop(resource_type, resources_without_events, 1,
                           bases[resource_type], st),
                 all_resources, energy_by_resource, production_inventory, bases)

\* the rank of a type in the order of its name
TypeRank(resource_type) ==
    CASE resource_type = "automate" -> 1
      [] resource_type = "internet_gateway" -> 2
      [] resource_type = "server" -> 3
      [] resource_type = "workstation" -> 4

\* (x['type'], -x['co2_kg']) <= (y['type'], -y['co2_kg'])
KeyLeq(x, y) ==
    \/ TypeRank(x.type) < TypeRank(y.type)
    \/ TypeRank(x.type) = TypeRank(y.type) /\ x.co2_kg >= y.co2_kg

\* line 225: list.sort, a stable sort, as the insertion of the entries from
\* the i-th on into the sorted list
RECURSIVE SortFrom(_, _, _)
SortFrom(details, i, sorted) ==
    IF i > Len(details) THEN sorted
    ELSE LET x == details[i]
             pos == Cardinality({j \in 1..Len(sorted) : KeyLeq(sorted[j], x)})
         IN  SortFrom(details, i + 1,
                      SubSeq(sorted, 1, pos) \o <<x>>
                      \o SubSeq(sorted, pos + 1, Len(sorted)))

\* lines 137-225: resource_details as the report prints it
ResourceDetails(energy, all_resources, end_date) ==
    LET bases == BaseEnergies(end_date)
        ids == SetToSeq(DOMAIN all_resources)
        historical ==
            [k \in 1..Len(ids) |->
                HistoricalDetail(ids[k], all_resources,
                                 energy.energy_by_resource, bases)]
        st == InventoryLoop(1, [details |-> historical,
                                existing_ids |-> DOMAIN all_resources],
                            all_resources, energy.energy_by_resource,
                            energy.production_inventory, bases)
    IN  Ok(SortFrom(st.details, 1, <<>>))

-----------------------------------------------------------------------------
(* SpecReport: generate_co2_report (main.py, lines 74-104) on a store      *)
(* loaded from the database file                                           *)

\* an instant before every accounting window of the run
TOld == 12 * Hour

StoredEvent(id, type, duration, start, p) ==
    [Event(id, type, duration, Iso(start), NoTs)
        EXCEPT !.stored_at = Iso(StartOfRun - Day),
               !.failure_probability = Prob(p)]

\* the duration of a stop at production power that removes the whole base
\* energy of a week
FullStopSeconds(resource_type) ==
    (BaseEnergies(StartOfRun)[resource_type] * 3)
    \div PowerDuringEvent(resource_type, T10)

\* the events of the i-th resource of a type under each profile of the store
ProfileEvents(profile, resource_type, i) ==
    CASE profile = "quiet" ->
            <<StoredEvent("e1", "reboot", Num(TwoHours), T10, 30)>>
      [] profile = "stop" ->
            <<StoredEvent("e1", "hardware_maintenance_stop", Num(TwoHours), T10, 20)>>
      [] profile = "old" ->
            <<StoredEvent("e1", "hardware_maintenance_stop", Num(TwoHours), TOld, 20)>>
      [] profile = "mixed" ->
            IF i % 2 = 1
            THEN <<StoredEvent("e1", "hardware_failure", Num(TwoHours), TOld, 90)>>
            ELSE <<StoredEvent("e1", "hardware_failure", Num(TwoHours), TOld, 90),
                   StoredEvent("e2", "cpu_overload", Num(TwoHours), T10, 50)>>
      [] profile = "alias" ->
            <<StoredEvent("e1", "software_update", Num(TwoHours), T10, 10)>>
      [] profile = "edge" ->
            <<StoredEvent("e1", "hardware_maintenance_stop", Num(TwoHours),
                          StartOfRun - Week, 20)>>
      [] profile = "outage" ->
            <<StoredEvent("e1", "hardware_failure",
                          Num(FullStopSeconds(resource_type)), T10, 90)>>
            \o (IF i = 1 /\ resource_type = "server"
                THEN <<StoredEvent("e2", "software_update", Num(2 * Grain), T22, 10)>>
                ELSE IF i = 1 /\ resource_type = "internet_gateway"
                THEN <<StoredEvent("e2", "software_update", Num(Grain), T22, 10)>>
                ELSE <<>>)

Profiles == {"quiet", "stop", "old", "mixed", "outage", "alias", "edge"}

\* the identifier of the i-th resource of a type: the "mixed" store leaves
\* "{type}_1" free, and the "alias" store names its workstations
\* "server_2", "server_4", ... and its servers "server_1", "server_3", ...
StoreId(profile, resource_type, i) ==
    IF profile = "alias" /\ resource_type = "workstation"
    THEN SynthId("server", 2 * i)
    ELSE IF profile = "alias" /\ resource_type = "server"
    THEN SynthId("server", 2 * i - 1)
    ELSE SynthId(resource_type, IF profile = "mixed" THEN i + 1 ELSE i)

\* the store with n[t] resources of type t
Store(n, profile) ==
    LET keys == {<<t, i>> \in ResourceTypes \X (1..21) : i <= n[t]}
        ids == {StoreId(profile, k[1], k[2]) : k \in keys}
        KeyOf(r) == CHOOSE k \in keys : StoreId(profile, k[1], k[2]) = r
    IN  [r \in ids |->
            [type |-> KeyOf(r)[1],
             events |-> ProfileEvents(profile, KeyOf(r)[1], KeyOf(r)[2]),
             created_at |-> StartOfRun - Day,
             updated_at |-> StartOfRun - Day]]

\* per type: no resource, one, the whole fleet, one more than the fleet
StoreCounts ==
    {n \in [ResourceTypes -> 0..21] :
        \A t \in ResourceTypes :
            n[t] \in {0, 1, PRODUCTION_INVENTORY[t], PRODUCTION_INVENTORY[t] + 1}}

StoreFamily == {Store(n, profile) : n \in StoreCounts, profile \in Profiles}

InitReport ==
    /\ data \in StoreFamily
    /\ now = StartOfRun
    /\ saved = 0
    /\ pc = "report"
    /\ FunctionIdle
    /\ ReportIdle
    /\ LlmIdle

\* the clock advances between two steps of the report
Tick ==
    /\ pc \in {"report", "filtered", "energy"}
    /\ now < StartOfRun + MaxTicks * Grain
    /\ now' = now + Grain
    /\ UNCHANGED <<llm_vars, data, saved, pc, in_type, in_start, in_end, in_events,
                   out_base, out_adjusted, week_events, acc, energy_data,
                   resource_details>>

\* main.py lines 77-84
FilterWeek ==
    /\ pc = "report"
    /\ week_events' = _filter_events_by_date_range(data, now - Week, now)
    /\ pc' = IF week_events'.status = "ok" THEN "filtered" ELSE "failed"
    /\ UNCHANGED <<llm_vars, data, now, saved, in_type, in_start, in_end, in_events,
                   out_base, out_adjusted, acc, energy_data, resource_details>>

\* main.py line 88: calculate_weekly_energy(week_events)
CalculateWeeklyEnergy ==
    /\ pc = "filtered"
    /\ acc' = WeeklyLocals(week_events.value, now)
    /\ energy_data' = calculate_weekly_energy(acc', now)
    /\ pc' = IF energy_data'.status = "ok" THEN "energy" ELSE "failed"
    /\ UNCHANGED <<llm_vars, data, now, saved, in_type, in_start, in_end, in_events,
                   out_base, out_adjusted, week_events, resource_details>>

\* llm_service.py line 290: r['failure_probability'] >= 0.3
AtRiskInclusive(r) ==
    r.failure_probability.num * 10 >= 3 * r.failure_probability.den * 100

\* llm_service.py line 290: r['failure_probability'] > 0.3, the probability
\* being num / den hundredths
AtRisk(r) ==
    r.failure_probability.num * 10 > 3 * r.failure_probability.den * 100

\* x['failure_probability'] >= y['failure_probability']
ProbGeq(x, y) ==
    x.failure_probability.num * y.failure_probability.den
        >= y.failure_probability.num * x.failure_probability.den

\* llm_service.py line 298: sorted(..., reverse=True), a stable sort, as the
\* insertion of the entries from the i-th on into the sorted list
RECURSIVE SortByProbability(_, _, _)
SortByProbability(details, i, sorted) ==
    IF i > Len(details) THEN sorted
    ELSE LET x == details[i]
             pos == Cardinality({j \in 1..Len(sorted) : ProbGeq(sorted[j], x)})
         IN  SortByProbability(details, i + 1,
                               SubSeq(sorted, 1, pos) \o <<x>>
                               \o SubSeq(sorted, pos + 1, Len(sorted)))

\* llm_service.py lines 289-299: resource_summary['resources_with_failures']
ResourcesWithFailures(details) ==
    LET resources_with_failures == SelectSeq(details, AtRisk)
        ranked == SortByProbability(resources_with_failures, 1, <<>>)
        top == SubSeq(ranked, 1, IF Len(ranked) < 5 THEN Len(ranked) ELSE 5)
    IN  [k \in 1..Len(top) |->
            [id |-> top[k].id, type |-> top[k].type,
             failure_probability |-> top[k].failure_probability,
             co2_kg |-> top[k].co2_kg]]

\* main.py lines 102-104: generate_textual_report, up to the sorted list and
\* the risk ranking that generate_co2_reduction_advice makes of it
GenerateTextualReport ==
    /\ pc = "energy"
    /\ resource_details' = ResourceDetails(energy_data, data, now)
    /\ resource_summary' = Ok(ResourcesWithFailures(resource_details'.value))
    /\ pc' = "textual"
    /\ UNCHANGED <<data, now, saved, in_type, in_start, in_end, in_events,
                   out_base, out_adjusted, week_events, acc, energy_data,
                   advices, carbon_footprint, report, output_file,
                   textual_output_file>>

NextReport ==
    \/ Tick
    \/ FilterWeek
    \/ CalculateWeeklyEnergy
    \/ GenerateTextualReport

SpecReport == InitReport /\ [][NextReport]_vars

-----------------------------------------------------------------------------
(* llm_service.py: LLMService._fallback_co2_advice.  A JSON value that the  *)
(* code compares or formats as a number is a tagged value: "num" a number  *)
(* (v, CO2 in hundredths of a kg), "null" the value None.  A dictionary   *)
(* is the sequence of its items in insertion order.                        *)

JNum(v) == [kind |-> "num", v |-> v, items |-> <<>>, texts |-> <<>>]
JNull == [kind |-> "null", v |-> 0, items |-> <<>>, texts |-> <<>>]
JMissing == [kind |-> "missing", v |-> 0, items |-> <<>>, texts |-> <<>>]

Item(key, value) == [key |-> key, value |-> value]

AdviceServer ==
    "Consider server virtualization and consolidation to reduce the number of physical servers, potentially reducing CO2 emissions by 20-30%."
AdviceAutomate ==
    "Optimize automate scheduling to reduce unnecessary runtime during non-production hours, reducing energy consumption."
AdviceWorkstation ==
    "Implement workstation power management policies to automatically shut down or hibernate workstations during non-business hours."
AdvicePowerManagement ==
    "Implement power management policies across all IT resources to reduce energy consumption during idle periods."
AdviceFailures ==
    "Address high failure probability resources proactively to prevent unexpected downtime and optimize maintenance schedules, reducing overall energy waste."
AdviceMaintain ==
    "Regularly monitor and maintain IT resources to ensure optimal energy efficiency and prevent energy waste from degraded performance."
AdviceRenewable ==
    "Consider migrating to renewable energy sources or implementing energy-efficient hardware upgrades to significantly reduce carbon footprint."
AdviceMonitoring ==
    "Implement real-time energy monitoring to identify and address energy consumption anomalies and optimize resource utilization."

\* line 361: max(co2_by_type.items(), key=lambda x: x[1]) from the i-th item
\* on, `best` being the largest so far; comparing None raises TypeError
RECURSIVE MaxItem(_, _, _)
MaxItem(items, i, best) ==
    IF i > Len(items) THEN Ok(best)
    ELSE IF items[i].value.kind # "num" \/ best.value.kind # "num" THEN Raised
    ELSE MaxItem(items, i + 1,
                 IF items[i].value.v > best.value.v THEN items[i] ELSE best)

\* lines 360-369: the advice for the leading resource type
FirstAdvice(co2_by_type) ==
    IF co2_by_type = <<>> THEN Ok(<<AdvicePowerManagement>>)
    ELSE LET max_type == MaxItem(co2_by_type, 2, co2_by_type[1])
         IN  IF max_type.status = "raise" THEN Raised
             ELSE IF max_type.value.key = "server" THEN Ok(<<AdviceServer>>)
             ELSE IF max_type.value.key = "automate" THEN Ok(<<AdviceAutomate>>)
             ELSE IF max_type.value.key = "workstation" THEN Ok(<<AdviceWorkstation>>)
             ELSE Ok(<<>>)

\* lines 372-375
SecondAdvice(resources_with_failures) ==
    IF resources_with_failures # <<>> THEN AdviceFailures ELSE AdviceMaintain

\* lines 378-382: total_co2 > 200, total_co2 in hundredths of a kg
ThirdAdvice(total_co2) ==
    IF total_co2.kind = "null" THEN Raised
    ELSE IF total_co2.kind = "num" /\ total_co2.v > 20000 THEN Ok(AdviceRenewable)
    ELSE Ok(AdviceMonitoring)

\* advices[:3]
FirstThree(s) == SubSeq(s, 1, IF Len(s) < 3 THEN Len(s) ELSE 3)

_fallback_co2_advice(summary) ==
    LET first == FirstAdvice(summary.co2_by_resource_type)
        third == ThirdAdvice(summary.total_co2_kg)
    IN  IF first.status = "raise" \/ third.status = "raise" THEN Raised
        ELSE Ok(FirstThree(first.value
                           \o <<SecondAdvice(summary.resources_with_failures)>>
                           \o <<third.value>>))

-----------------------------------------------------------------------------
(* SpecAdvice: _fallback_co2_advice applied to every summary of the inputs *)

\* the largest number of keys of co2_by_resource_type
MaxSummaryKeys == 2

SummaryKeys == {"server", "workstation", "automate", "internet_gateway", "storage"}

SummaryValues == {JNum(150), JNum(900), JNull}

\* the dictionaries over SummaryKeys with at most n items
Dicts(n) ==
    {d \in SeqsUpTo({Item(k, v) : k \in SummaryKeys, v \in SummaryValues}, n) :
        \A i, j \in 1..Len(d) : i # j => d[i].key # d[j].key}

FailureEntry(id, p) == [id |-> id, type |-> "server", failure_probability |-> p]

SummaryInputs ==
    [co2_by_resource_type : Dicts(MaxSummaryKeys),
     resources_with_failures : {<<>>, <<FailureEntry("server_1", 90)>>},
     total_co2_kg : {JMissing, JNum(0), JNum(20000), JNum(20001), JNull}]

InitAdvice ==
    /\ resource_summary \in SummaryInputs
    /\ advices = NotRun
    /\ carbon_footprint = NotRun
    /\ report = NotRun
    /\ output_file = NotRun
    /\ textual_output_file = NotRun
    /\ pc = "summary"
    /\ StoreIdle
    /\ FunctionIdle
    /\ ReportIdle

FallbackAdvice ==
    /\ pc = "summary"
    /\ advices' = _fallback_co2_advice(resource_summary)
    /\ pc' = "advised"
    /\ UNCHANGED <<data, now, saved, in_type, in_start, in_end, in_events,
                   out_base, out_adjusted, week_events, acc, energy_data,
                   resource_details, resource_summary, carbon_footprint, report,
                   output_file, textual_output_file>>

NextAdvice == FallbackAdvice

SpecAdvice == InitAdvice /\ [][NextAdvice]_vars

-----------------------------------------------------------------------------
(* llm_service.py: the calls of the LLM.  A reply is what the HTTP exchange *)
(* of _call_llm yields: a failure of the exchange, or the content of the   *)
(* first choice.  The content is None or a string; a string is described   *)
(* by whether it is wrapped in a ``` fence and by what json.loads makes of *)
(* the text inside: "empty" and "garbage" raise JSONDecodeError, any other *)
(* document is a JSON value.  A JSON value is tagged: "num", "null",       *)
(* "str" (a string that float() rejects), "list" (texts its elements) and  *)
(* "object" (items the sequence of its items in insertion order).         *)

JStr == [kind |-> "str", v |-> 0, items |-> <<>>, texts |-> <<>>]
JList(texts) == [kind |-> "list", v |-> 0, items |-> <<>>, texts |-> texts]
JObject(items) == [kind |-> "object", v |-> 0, items |-> items, texts |-> <<>>]
JEmpty == [kind |-> "empty", v |-> 0, items |-> <<>>, texts |-> <<>>]
JGarbage == [kind |-> "garbage", v |-> 0, items |-> <<>>, texts |-> <<>>]

Failure(cause) == [kind |-> cause, fenced |-> FALSE, json |-> JEmpty]
Content(fenced, json) == [kind |-> "content", fenced |-> fenced, json |-> json]
NoneContent == [kind |-> "none", fenced |-> FALSE, json |-> JEmpty]

\* timeout, connection error, raise_for_status, response.json() on an empty
\* or non-JSON body, a body without choices: all caught at lines 59-61
LlmFailures ==
    {"timeout", "network_error", "http_error", "empty_body", "non_json_body",
     "no_choices"}

\* lines 54-61: the text returned to the caller
_call_llm(reply) ==
    IF reply.kind \in LlmFailures THEN Content(FALSE, JEmpty) ELSE reply

\* lines 98-107 (and 159-168, 229-238, 327-336): strip, drop the fence,
\* json.loads.  None has no strip(): AttributeError.
ParseResponse(response) ==
    IF response.kind = "none" THEN Raised
    ELSE IF response.json.kind \in {"empty", "garbage"}
         THEN [status |-> "decode_error", value |-> 0]
    ELSE Ok(response.json)

\* dict.get(key, default) on the items of an object
Get(items, key, default) ==
    IF \E i \in 1..Len(items) : items[i].key = key
    THEN items[CHOOSE i \in 1..Len(items) : items[i].key = key].value
    ELSE default

\* lines 112-122: severity_map.get(event_type, 0.3), in hundredths
SeverityMap(event_type) ==
    CASE event_type = "hardware_failure" -> 90
      [] event_type = "operating_system_failure" -> 80
      [] event_type = "software_service_failure" -> 60
      [] event_type = "cpu_overflow" -> 50
      [] event_type = "hardware_maintenance_stop" -> 20
      [] event_type = "software_maintenance_stop" -> 10
      [] event_type = "software_update" -> 10
      [] event_type = "operating_system_update" -> 20
      [] OTHER -> 30

\* max(0.0, min(1.0, probability)), in hundredths
ClampProbability(p) == IF p < 0 THEN 0 ELSE IF p > 100 THEN 100 ELSE p

\* lines 94-122; the result in hundredths
predict_failure_probability(resource_type, event, reply) ==
    LET parsed == ParseResponse(_call_llm(reply))
    IN  IF parsed.status = "raise" THEN Raised
        ELSE IF parsed.status = "decode_error"
             THEN Ok(SeverityMap(event.event_type))
        ELSE IF parsed.value.kind # "object" THEN Raised
        ELSE LET probability == Get(parsed.value.items, "probability", JNum(50))
             IN  IF probability.kind = "num"
                 THEN Ok(ClampProbability(probability.v))
                 ELSE IF probability.kind = "str"
                 THEN Ok(SeverityMap(event.event_type))
                 ELSE Raised

\* round(wh / 1000.0 * 0.5, 2) of an energy in hundredths of a Wh, in
\* hundredths of a kg
Co2OfWh(wh) == RoundDiv(wh, 2000)

\* lines 174-191
_fallback_carbon_calculation(energy) ==
    JObject(<<Item("total_co2_kg", JNum(Co2OfWh(energy.total_energy_wh))),
              Item("co2_by_resource_type",
                   JObject([i \in 1..Len(TypeOrder) |->
                              Item(TypeOrder[i],
                                   JNum(Co2OfWh(energy.energy_by_type[TypeOrder[i]])))])),
              Item("methodology", JStr)>>)

\* lines 156-172
evaluate_carbon_footprint(energy, reply) ==
    LET parsed == ParseResponse(_call_llm(reply))
    IN  IF parsed.status = "raise" THEN Raised
        ELSE IF parsed.status = "decode_error"
             THEN Ok(_fallback_carbon_calculation(energy))
        ELSE Ok(parsed.value)

\* lines 226-247
generate_report_summary(energy, carbon_data, reply) ==
    LET parsed == ParseResponse(_call_llm(reply))
    IN  IF parsed.status = "raise" THEN Raised
        ELSE IF parsed.status = "decode_error"
             THEN IF carbon_data.kind # "object" THEN Raised
                  ELSE Ok(JObject(<<Item("summary", JStr),
                                    Item("key_findings",
                                         JList(<<"Energy consumption calculated based on resource types and events">>)),
                                    Item("recommendations",
                                         JList(<<"Monitor resource usage",
                                                 "Optimize energy consumption">>)),
                                    Item("details",
                                         Get(carbon_data.items, "co2_by_resource_type",
                                             JObject(<<>>)))>>))
        ELSE Ok(parsed.value)

\* "Monitor and optimize energy consumption patterns."
AdvicePad == "Monitor and optimize energy consumption patterns."

\* lines 344-346
RECURSIVE Padded(_)
Padded(list) == IF Len(list) < 3 THEN Padded(Append(list, AdvicePad)) ELSE list

\* lines 268-352.  The f-string of line 305 formats total_co2_kg with .2f,
\* which raises for a value that is no number.
generate_co2_reduction_advice(energy, carbon_data, details, reply) ==
    IF carbon_data.kind # "object" THEN Raised
    ELSE
    LET co2_by_type == Get(carbon_data.items, "co2_by_resource_type", JObject(<<>>))
        summary ==
            [total_co2_kg |-> Get(carbon_data.items, "total_co2_kg", JNum(0)),
             co2_by_resource_type |->
                 co2_by_type.items,
             resources_with_failures |-> ResourcesWithFailures(details)]
        \* line 360: a falsy value takes the else branch, a truthy value
        \* that is no dict has no items()
        fallback == IF co2_by_type.kind \in {"object", "null"}
                       \/ co2_by_type = JList(<<>>)
                    THEN _fallback_co2_advice(summary)
                    ELSE Raised
        parsed == ParseResponse(_call_llm(reply))
    IN  IF summary.total_co2_kg.kind # "num" THEN Raised
        ELSE IF parsed.status = "raise" THEN Raised
        ELSE IF parsed.status = "decode_error" THEN fallback
        ELSE IF parsed.value.kind # "object" THEN Raised
        ELSE LET list == Get(parsed.value.items, "advices", JList(<<>>))
             IN  IF list.kind # "list" THEN Raised
                 ELSE IF Len(list.texts) >= 3 THEN Ok(SubSeq(list.texts, 1, 3))
                 ELSE IF Len(list.texts) > 0 THEN Ok(Padded(list.texts))
                 ELSE fallback

-----------------------------------------------------------------------------
(* report_generator.py: generate_report and the text of the textual report *)

\* lines 112-116 and 256-258: co2_by_type.get(resource_type, 0) is divided
\* and formatted as a number for each of the four types
TypeBreakdownRaises(co2_by_type) ==
    \/ co2_by_type.kind # "object"
    \/ \E t \in ResourceTypes : Get(co2_by_type.items, t, JNum(0)).kind # "num"

\* lines 36-79
generate_report(energy, carbon_data, events, reply) ==
    LET llm_summary == generate_report_summary(energy, carbon_data, reply)
    IN  IF llm_summary.status = "raise" THEN Raised
        ELSE IF llm_summary.value.kind # "object" THEN Raised
        ELSE IF carbon_data.kind # "object" THEN Raised
        ELSE IF TypeBreakdownRaises(Get(carbon_data.items, "co2_by_resource_type",
                                        JObject(<<>>)))
             THEN Raised
        ELSE Ok([total_co2_emissions_kg |->
                     Get(carbon_data.items, "total_co2_kg", JNum(0)),
                 co2_emissions_by_resource_category |->
                     Get(carbon_data.items, "co2_by_resource_type", JObject(<<>>)),
                 energy_consumption |->
                     [total_energy_kwh |-> energy.total_energy_kwh,
                      total_energy_wh |-> energy.total_energy_wh,
                      energy_by_resource_type |-> energy.energy_by_type],
                 resource_inventory |->
                     [t \in ResourceTypes |-> Cardinality(OfType(events, t))]])

\* lines 303-307
StaticAdvices ==
    <<"Implement power management policies to reduce energy consumption during idle periods.",
      "Optimize resource utilization and consider virtualization to reduce physical hardware requirements.",
      "Monitor and maintain IT resources regularly to ensure optimal energy efficiency.">>

\* lines 244-258: total_co2 and the CO2 of each type are formatted with .2f
TextRaises(carbon_data) ==
    \/ carbon_data.kind # "object"
    \/ Get(carbon_data.items, "total_co2_kg", JNum(0)).kind # "num"
    \/ TypeBreakdownRaises(Get(carbon_data.items, "co2_by_resource_type", JObject(<<>>)))

\* lines 293-308: the advices the report prints
ReportAdvices(energy, carbon_data, details, reply) ==
    LET result == generate_co2_reduction_advice(energy, carbon_data, details, reply)
    IN  IF result.status = "raise" THEN StaticAdvices ELSE result.value

-----------------------------------------------------------------------------
(* SpecRun: main.py, process_input_file on an input document followed by   *)
(* generate_co2_report, every call of the LLM answered by any reply.       *)
(* in_events holds the events of the document not yet processed.  The run *)
(* takes less than one grain of the clock.                                 *)

InputItem(resource_id, resource_type, event) ==
    [resource_id |-> resource_id, resource_type |-> resource_type, event |-> event]

RunDocuments ==
    { <<>>,
      <<InputItem("server_1", "server",
                  Event("e1", "hardware_failure", Num(TwoHours), Iso(T10), NoTs))>>,
      <<InputItem("server_1", "server",
                  Event("e1", "hardware_failure", Num(TwoHours), Iso(T10), NoTs)),
        InputItem("server_1", "server",
                  Event("e1", "reboot", Num(TwoHours), Iso(T22), NoTs))>>,
      <<InputItem("internet_gateway_1", "internet_gateway",
                  Event("e1", "hardware_maintenance_stop", Num(TwoHours), Iso(T10), NoTs)),
        InputItem("server_1", "server",
                  Event("e2", "cpu_overflow", Num(TwoHours), Iso(TOld), NoTs))>> }

FailureReplies == {Failure(cause) : cause \in LlmFailures}

ProbabilityReply(fenced, value) ==
    Content(fenced, JObject(<<Item("probability", value)>>))

PredictReplies ==
    FailureReplies
    \cup { Content(FALSE, JGarbage), Content(FALSE, JList(<<>>)),
           Content(FALSE, JObject(<<>>)), NoneContent,
           ProbabilityReply(TRUE, JNum(70)), ProbabilityReply(FALSE, JNum(700)),
           ProbabilityReply(FALSE, JNull), ProbabilityReply(FALSE, JStr) }

CarbonObject(total, server, gateway) ==
    JObject(<<Item("total_co2_kg", total),
              Item("co2_by_resource_type",
                   JObject(<<Item("server", server),
                             Item("internet_gateway", gateway)>>))>>)

CarbonReplies ==
    FailureReplies
    \cup { Content(FALSE, JGarbage), Content(FALSE, JList(<<>>)),
           Content(FALSE, JObject(<<>>)), NoneContent,
           Content(TRUE, CarbonObject(JNum(99900), JNum(100), JNum(99800))),
           Content(FALSE, CarbonObject(JStr, JNum(100), JNum(200))),
           Content(FALSE, CarbonObject(JNum(300), JNull, JNum(200))) }

SummaryReplies ==
    FailureReplies
    \cup { Content(FALSE, JList(<<>>)), NoneContent,
           Content(TRUE, JObject(<<Item("summary", JStr)>>)) }

AdviceReplies ==
    FailureReplies
    \cup { Content(FALSE, JList(<<>>)), NoneContent,
           Content(FALSE, JObject(<<Item("advices", JList(<<"a", "b", "c", "d">>))>>)),
           Content(FALSE, JObject(<<Item("advices", JList(<<"a">>))>>)) }

InitRun ==
    /\ data = EmptyData
    /\ now = StartOfRun
    /\ saved = 0
    /\ pc = "ingest"
    /\ in_events \in RunDocuments
    /\ in_type = "server"
    /\ in_start = 0
    /\ in_end = 0
    /\ out_base = NotRun
    /\ out_adjusted = NotRun
    /\ ReportIdle
    /\ LlmIdle

\* main.py lines 53-61: one iteration of the loop over the events
ProcessEvent(reply) ==
    /\ pc = "ingest"
    /\ in_events # <<>>
    /\ LET item == Head(in_events)
           failure_probability ==
               predict_failure_probability(item.resource_type, item.event, reply)
       IN  IF failure_probability.status = "raise"
           THEN /\ pc' = "failed"
                /\ UNCHANGED <<data, in_events>>
           ELSE /\ data' = add_event(data, item.resource_id, item.resource_type,
                                     [item.event EXCEPT !.failure_probability =
                                         Prob(failure_probability.value)],
                                     now)
                /\ in_events' = Tail(in_events)
                /\ pc' = pc
    /\ UNCHANGED <<llm_vars, now, saved, in_type, in_start, in_end, out_base,
                   out_adjusted, week_events, acc, energy_data, resource_details>>

\* Database.save() reached while events of the document are still to come
SaveInsideLoop == Save

\* main.py lines 63-65, after the last event
FinishInput ==
    /\ in_events = <<>>
    /\ Save

\* main.py line 188 and line 77: generate_co2_report starts
StartReport ==
    /\ pc = "saved"
    /\ pc' = "report"
    /\ UNCHANGED <<llm_vars, data, now, saved, in_type, in_start, in_end,
                   in_events, out_base, out_adjusted, week_events, acc,
                   energy_data, resource_details>>

\* main.py line 92
EvaluateCarbonFootprint(reply) ==
    /\ pc = "energy"
    /\ carbon_footprint' = evaluate_carbon_footprint(energy_data, reply)
    /\ pc' = IF carbon_footprint'.status = "ok" THEN "carbon" ELSE "failed"
    /\ UNCHANGED <<data, now, saved, in_type, in_start, in_end, in_events,
                   out_base, out_adjusted, week_events, acc, energy_data,
                   resource_details, resource_summary, advices, report,
                   output_file, textual_output_file>>

\* main.py lines 96-98
GenerateReport(reply) ==
    /\ pc = "carbon"
    /\ report' = generate_report(energy_data, carbon_footprint.value,
                                 week_events.value, reply)
    /\ pc' = IF report'.status = "ok" THEN "reported" ELSE "failed"
    /\ UNCHANGED <<data, now, saved, in_type, in_start, in_end, in_events,
                   out_base, out_adjusted, week_events, acc, energy_data,
                   resource_details, resource_summary, advices, carbon_footprint,
                   output_file, textual_output_file>>

\* main.py lines 102-104: generate_textual_report
WriteTextualReport(reply) ==
    /\ pc = "reported"
    /\ IF TextRaises(carbon_footprint.value)
       THEN /\ pc' = "failed"
            /\ UNCHANGED <<resource_details, advices>>
       ELSE /\ resource_details' = ResourceDetails(energy_data, data, now)
            /\ advices' = Ok(ReportAdvices(energy_data, carbon_footprint.value,
                                           resource_details'.value, reply))
            /\ pc' = "written"
    /\ UNCHANGED <<data, now, saved, in_type, in_start, in_end, in_events,
                   out_base, out_adjusted, week_events, acc, energy_data,
                   resource_summary, carbon_footprint, report,
                   output_file, textual_output_file>>

\* report['textual_report'] = textual_report
WithTextualReport(document, textual_report) ==
    [k \in DOMAIN document \cup {"textual_report"} |->
        IF k = "textual_report" THEN textual_report ELSE document[k]]

\* the text of generate_textual_report: the per-resource lines and the advices
TextualReport == [details |-> resource_details.value, advices |-> advices.value]

\* main.py lines 106-113: json.dump(report) to the output file, then the
\* text to its own file
SaveReports ==
    /\ pc = "written"
    /\ output_file' = Ok(report.value)
    /\ textual_output_file' = Ok(TextualReport)
    /\ pc' = "files"
    /\ UNCHANGED <<data, now, saved, in_type, in_start, in_end, in_events,
                   out_base, out_adjusted, week_events, acc, energy_data,
                   resource_details, resource_summary, advices,
                   carbon_footprint, report>>

\* main.py lines 118-121: the text is added to the dictionary, which is
\* returned
ReturnReport ==
    /\ pc = "files"
    /\ report' = Ok(WithTextualReport(report.value, TextualReport))
    /\ pc' = "returned"
    /\ UNCHANGED <<data, now, saved, in_type, in_start, in_end, in_events,
                   out_base, out_adjusted, week_events, acc, energy_data,
                   resource_details, resource_summary, advices,
                   carbon_footprint, output_file, textual_output_file>>

NextRun ==
    \/ \E reply \in PredictReplies : ProcessEvent(reply)
    \/ FinishInput
    \/ StartReport
    \/ FilterWeek
    \/ CalculateWeeklyEnergy
    \/ \E reply \in CarbonReplies : EvaluateCarbonFootprint(reply)
    \/ \E reply \in SummaryReplies : GenerateReport(reply)
    \/ \E reply \in AdviceReplies : WriteTextualReport(reply)
    \/ SaveReports
    \/ ReturnReport

SpecRun == InitRun /\ [][NextRun]_vars

-----------------------------------------------------------------------------
(* Properties of _adjust_energy_for_events (SpecAdjust) *)

\* a stop-class event of two hours that starts in the window [start_date, end_date]
\* at an hour of day in [from_hour, to_hour]
IsTwoHourStop(e, from_hour, to_hour) ==
    /\ e.event_type = "hardware_maintenance_stop"
    /\ e.duration_event = Num(TwoHours)
    /\ e.timestamp_start_event.kind = "iso"
    /\ e.timestamp_end_event.kind \in {"missing", "iso"}
    /\ in_start <= e.timestamp_start_event.t
    /\ e.timestamp_start_event.t <= in_end
    /\ HourOf(e.timestamp_start_event.t) \in from_hour..to_hour

\* C2: whenever _adjust_energy_for_events returns, for any resource type,
\* window and list of events, the energy it returns is >= 0.
C2_AdjustedNonNegative ==
    out_adjusted.status = "ok" => out_adjusted.value >= 0

\* C2 witness: two events whose summed reduction exceeds the base energy were
\* adjusted, and the result was clamped to 0.
C2_Witness ==
    /\ pc = "adjusted"
    /\ Len(in_events) = 2
    /\ out_base.value > 0
    /\ out_adjusted = Ok(0)

\* C3: two identical two-hour stops on a server inside the production window
\* suppress the overlapped time once: the adjusted energy is 14080 Wh.
C3_OverlapSuppressedOnce ==
    (/\ pc = "adjusted"
     /\ in_type = "server"
     /\ Len(in_events) = 2
     /\ in_events[1] = in_events[2]
     /\ IsTwoHourStop(in_events[1], PRODUCTION_START_HOUR, PRODUCTION_END_HOUR - 2))
    => out_adjusted = Ok(Wh(14080))

\* C6: a single hardware_maintenance_stop of 7200 s on a server whose start
\* lies in the 7-day window at an hour of day in [8,20) gives 14080 Wh.
C6_SingleStop ==
    (/\ pc = "adjusted"
     /\ in_type = "server"
     /\ in_end - in_start = Week
     /\ Len(in_events) = 1
     /\ IsTwoHourStop(in_events[1], PRODUCTION_START_HOUR, PRODUCTION_END_HOUR - 1))
    => out_adjusted = Ok(Wh(14080))

\* C6 witness: such a stop starting at 19:30 was adjusted to 14080 Wh.
C6_Witness ==
    /\ pc = "adjusted"
    /\ in_type = "server"
    /\ Len(in_events) = 1
    /\ IsTwoHourStop(in_events[1], 19, 19)
    /\ in_events[1].timestamp_start_event.t % Hour # 0
    /\ out_adjusted = Ok(Wh(14080))

-----------------------------------------------------------------------------
(* Properties of _calculate_base_energy (SpecBase) *)

\* C4: the base energy of a server over any window of exactly 7 days is
\* 14280 Wh, whatever the start instant.
C4_ServerWeekBase ==
    (pc = "base" /\ in_type = "server" /\ in_end - in_start = Week)
    => out_base = Ok(Wh(14280))

\* C4 witness: a window that starts off the hour boundary, at 19:30, was
\* integrated to 14280 Wh.
C4_Witness ==
    /\ pc = "base"
    /\ in_type = "server"
    /\ in_end - in_start = Week
    /\ HourOf(in_start) = 19
    /\ in_start % Hour = 1800
    /\ out_base = Ok(Wh(14280))

\* C5: the base energy of the internet gateway is 50 W times the window's
\* duration in hours for every window with start <= end; 8400 Wh for 7 days.
C5_GatewayBase ==
    (pc = "base" /\ in_type = "internet_gateway" /\ in_start <= in_end)
    => /\ out_base.status = "ok"
       /\ out_base.value = (Wh(50) * ((in_end - in_start) \div 60)) \div 60
       /\ (in_end - in_start = Week => out_base.value = Wh(8400))

\* C5 witness: a 7-day window of the gateway was integrated to 8400 Wh.
C5_Witness ==
    /\ pc = "base"
    /\ in_type = "internet_gateway"
    /\ in_end - in_start = Week
    /\ out_base = Ok(Wh(8400))

-----------------------------------------------------------------------------
(* Properties of Database.add_event (Spec) *)

\* C7: add_event with an event whose event_id is already in the resource's
\* list replaces the entry at the same position, leaves the other entries and
\* the length of the list unchanged, and applying the same call once more
\* (the caller's event now carries its stored_at) yields the same list.
C7_UpsertInPlace ==
    [][\A resource_id \in ResourceIds, resource_type \in ResourceTypes,
          event \in IngestPool :
          (/\ AddEvent(resource_id, resource_type, event)
           /\ resource_id \in DOMAIN data
           /\ EventExists(data[resource_id].events, event.event_id))
          => LET old == data[resource_id].events
                 new == data'[resource_id].events
                 i == FirstIndex(old, event.event_id)
                 again == add_event(data', resource_id, resource_type,
                                    Stamped(event, now), now')
             IN  /\ Len(new) = Len(old)
                 /\ new[i] = Stamped(event, now)
                 /\ \A j \in 1..Len(old) : j # i => new[j] = old[j]
                 /\ again[resource_id].events = new]_vars

\* C7 witness: the second of two stored events was stamped by its call and
\* the first carries a later stored_at, so the first was replaced in place
\* after the second was appended.
C7_Witness ==
    \E resource_id \in DOMAIN data :
        LET events == data[resource_id].events
        IN  /\ Len(events) = 2
            /\ events[2].stored_at.t >= StartOfRun
            /\ events[1].stored_at.t > events[2].stored_at.t

\* C8: from the empty store, after any sequence of add_event calls, no
\* resource's list holds two events with the same event_id.
C8_EventIdUnique ==
    \A resource_id \in DOMAIN data :
        LET events == data[resource_id].events
        IN  \A i, j \in 1..Len(events) :
                i # j => events[i].event_id # events[j].event_id

\* C8 witness: a list of three events with three ids, the last stamped by its
\* call, one of which was upserted again after the last one was appended.
C8_Witness ==
    \E resource_id \in DOMAIN data :
        LET events == data[resource_id].events
        IN  /\ Len(events) = 3
            /\ events[3].stored_at.t >= StartOfRun
            /\ \E i \in 1..2 : events[i].stored_at.t > events[3].stored_at.t

-----------------------------------------------------------------------------
(* Properties of calculate_weekly_energy and generate_textual_report       *)
(* (SpecReport)                                                            *)

RECURSIVE SumAdjusted(_, _)
SumAdjusted(rs, resources) ==
    IF rs = {} THEN 0
    ELSE LET r == CHOOSE x \in rs : TRUE
         IN  resources[r].adjusted_energy_wh + SumAdjusted(rs \ {r}, resources)

SumByType(energy_by_type) ==
    energy_by_type["server"] + energy_by_type["workstation"]
    + energy_by_type["automate"] + energy_by_type["internet_gateway"]

Abs(x) == IF x < 0 THEN 0 - x ELSE x

Max(x, y) == IF x > y THEN x ELSE y

\* the energy of a type when every instance is counted once: the adjusted
\* energy of its resources with events plus the base energy of the others
CountedOnce(resource_type) ==
    LET rs == OfType(week_events.value, resource_type)
        remaining == PRODUCTION_INVENTORY[resource_type] - Cardinality(rs)
    IN  SumAdjusted(rs, acc.resources)
        + BaseEnergies(energy_data.period.end)[resource_type] * Max(remaining, 0)

\* C1: calculate_weekly_energy counts every instance exactly once:
\* energy_by_type[type] is the sum of adjusted_energy_wh over the resources of
\* the type that have events plus the base energy of each remaining instance;
\* with no events it is fleet_count * base_energy(type).
C1_EachInstanceOnce ==
    acc.status = "ok"
    => \A t \in ResourceTypes : acc.energy_by_type[t] = CountedOnce(t)

\* C9 as stated: total_energy_wh is the sum of energy_by_type over the four
\* types, exactly before rounding and within 1e-6 relative after the 2-decimal
\* rounding of each field.
C9_TotalWithinRelativeTolerance ==
    energy_data.status = "ok"
    => /\ acc.total_energy_wh = SumByType(acc.energy_by_type)
       /\ Abs(energy_data.total_energy_wh - SumByType(energy_data.energy_by_type))
              * 1000000
          <= Max(Abs(energy_data.total_energy_wh),
                 Abs(SumByType(energy_data.energy_by_type)))

\* C9 amended: total_energy_wh is the sum of energy_by_type over the four
\* types exactly before rounding; after the 2-decimal rounding of each field
\* the two differ by at most 0.02 Wh.
C9_TotalIsSumOfTypes ==
    energy_data.status = "ok"
    => /\ acc.total_energy_wh = SumByType(acc.energy_by_type)
       /\ Abs(energy_data.total_energy_wh - SumByType(energy_data.energy_by_type))
          <= 2

\* C9 witness: the energy of a store with events was computed, and the
\* rounded total differs from the sum of the rounded per-type energies.
C9_Witness ==
    /\ pc = "energy"
    /\ energy_data.status = "ok"
    /\ week_events.value # EmptyData
    /\ energy_data.total_energy_wh # SumByType(energy_data.energy_by_type)

\* the entries of resource_details of one type
EntriesOfType(resource_type) ==
    {i \in 1..Len(resource_details.value) :
        resource_details.value[i].type = resource_type}

\* C10: for every type with at most fleet_count historical resources, the
\* per-resource list holds exactly fleet_count entries of the type.
C10_FleetCardinality ==
    pc = "textual"
    => \A t \in ResourceTypes :
           Cardinality(OfType(data, t)) <= PRODUCTION_INVENTORY[t]
           => Cardinality(EntriesOfType(t)) = PRODUCTION_INVENTORY[t]

\* C10 witness: a report over a store that holds one server whose events all
\* lie before the week, and the whole fleet of workstations: the list has 10
\* servers and 20 workstations.
C10_Witness ==
    /\ pc = "textual"
    /\ Cardinality(OfType(data, "server")) = 1
    /\ OfType(week_events.value, "server") = {}
    /\ Cardinality(OfType(data, "workstation")) = PRODUCTION_INVENTORY["workstation"]
    /\ Cardinality(EntriesOfType("server")) = PRODUCTION_INVENTORY["server"]
    /\ Cardinality(EntriesOfType("workstation")) = PRODUCTION_INVENTORY["workstation"]

\* C11: when the store holds more resources of a type than the fleet count of
\* the type, neither the aggregation nor the reconciliation completes: no
\* energy document is built from more than fleet_count resources of a type,
\* and no per-resource list from a store with more than fleet_count.
C11_FailsLoudly ==
    \A t \in ResourceTypes :
        /\ (/\ week_events.status = "ok"
            /\ Cardinality(OfType(week_events.value, t)) > PRODUCTION_INVENTORY[t])
           => energy_data.status # "ok"
        /\ Cardinality(OfType(data, t)) > PRODUCTION_INVENTORY[t]
           => resource_details.status # "ok"

-----------------------------------------------------------------------------
(* Properties of _fallback_co2_advice (SpecAdvice) *)

\* C12: _fallback_co2_advice returns exactly 3 non-empty strings for every
\* resource_summary: whichever key leads co2_by_resource_type, whether or not
\* it is empty, whether or not resources_with_failures is empty, and for any
\* total_co2_kg.
C12_ThreeAdvices ==
    pc = "advised"
    => /\ advices.status = "ok"
       /\ Len(advices.value) = 3
       /\ \A i \in 1..Len(advices.value) : advices.value[i] # ""

-----------------------------------------------------------------------------
(* Properties of the run with its collaborators (SpecRun) *)

\* C13: whatever the LLM replies (timeout, network error, non-2xx status,
\* empty or non-JSON body, JSON of an unexpected shape), no exception leaves
\* process_input_file or generate_co2_report: the run never fails.
C13_CollaboratorNeverAborts ==
    pc # "failed"

\* C14: for every collaborator reply, total_co2_emissions_kg of the report is
\* total_energy_kwh * 0.5 and each entry of co2_emissions_by_resource_category
\* is the type's energy in kWh * 0.5 (to the 2 decimals the figures carry).
C14_Co2FromEnergyOnly ==
    report.status = "ok"
    => /\ report.value.total_co2_emissions_kg.kind = "num"
       /\ Abs(2 * report.value.total_co2_emissions_kg.v
              - energy_data.total_energy_kwh) <= 2
       /\ \A t \in ResourceTypes :
              LET co2 == Get(report.value.co2_emissions_by_resource_category.items,
                             t, JMissing)
              IN  /\ co2.kind = "num"
                  /\ Abs(2000 * co2.v - energy_data.energy_by_type[t]) <= 1000

-----------------------------------------------------------------------------
(* Further properties of _adjust_energy_for_events (SpecAdjust) *)

\* the list of events is one event with a numeric duration and a start
\* instant inside the window, so that the event is classified
SingleClassified ==
    /\ pc = "adjusted"
    /\ Len(in_events) = 1
    /\ in_events[1].event_type # None
    /\ in_events[1].duration_event.kind = "num"
    /\ in_events[1].timestamp_start_event.kind = "iso"
    /\ in_events[1].timestamp_end_event.kind \in {"missing", "iso"}
    /\ in_start <= in_events[1].timestamp_start_event.t
    /\ in_events[1].timestamp_start_event.t <= in_end

\* the event types that contain "maintenance_stop" or "failure"
StopOrFailureTypes ==
    {"hardware_maintenance_stop", "software_maintenance_stop", "hardware_failure",
     "operating_system_failure", "software_service_failure", "update_failure"}

\* the event types that contain "update"
UpdateTypes == {"software_update", "operating_system_update", "update_failure"}

\* the modifier of the table as the fraction sign * 1 / den, first match first
TableModifier(event_type) ==
    IF event_type \in StopOrFailureTypes THEN [sign |-> 0 - 1, den |-> 1]
    ELSE IF event_type \in {"cpu_overflow", "cpu_overload"} THEN [sign |-> 1, den |-> 4]
    ELSE IF event_type \in UpdateTypes THEN [sign |-> 1, den |-> 10]
    ELSE [sign |-> 0, den |-> 1]

\* C17: an event is classified by the modifier table with first-match
\* precedence: "maintenance_stop" or "failure" in the type gives -1.0 (also
\* when it contains "update"), else cpu_overflow or cpu_overload +0.25, else
\* "update" in the type +0.10, else 0.0; the adjusted energy is the base
\* energy plus modifier * power * duration, not below 0.
C17_ModifierTable ==
    SingleClassified
    => LET e == in_events[1]
           modifier == TableModifier(e.event_type)
           charged == Energy(PowerDuringEvent(in_type, e.timestamp_start_event.t),
                             e.duration_event.secs, 1, modifier.den)
       IN  out_adjusted = Ok(Max(0, out_base.value + modifier.sign * charged))

\* C17 witness: an update_failure of two hours was adjusted as a stop, and the
\* energy went down.
C17_Witness ==
    /\ SingleClassified
    /\ in_events[1].event_type = "update_failure"
    /\ in_events[1].duration_event = Num(TwoHours)
    /\ in_type = "server"
    /\ out_adjusted = Ok(out_base.value - Wh(200))

Min(x, y) == IF x < y THEN x ELSE y

\* C18: the adjustment is sub-interval accurate: a stop removes, for each
\* hour-aligned sub-interval it overlaps, that sub-interval's own base energy,
\* and only for the time inside the window.  A 2-hour stop on a server that
\* starts at 19:00 removes 100 + 70 Wh; a stop that runs past the end of the
\* window removes only the energy of the part inside the window.
C18_SubIntervalAccurate ==
    (/\ SingleClassified
     /\ in_events[1].event_type \in StopOrFailureTypes
     /\ in_events[1].duration_event.secs >= 0)
    => LET event_start == in_events[1].timestamp_start_event.t
           event_end == event_start + in_events[1].duration_event.secs
           removed == _calculate_base_energy(in_type, event_start,
                                             Min(event_end, in_end))
       IN  out_adjusted = Ok(Max(0, out_base.value - removed))

\* C19: an event whose duration is negative, like one whose duration does not
\* parse, changes the adjusted energy by 0.
C19_NegativeDurationIgnored ==
    (/\ pc = "adjusted"
     /\ Len(in_events) = 1
     /\ in_events[1].event_type # None
     /\ in_events[1].timestamp_start_event.kind = "iso"
     /\ in_events[1].timestamp_end_event.kind \in {"missing", "iso"}
     /\ \/ in_events[1].duration_event.kind = "bad"
        \/ /\ in_events[1].duration_event.kind = "num"
           /\ in_events[1].duration_event.secs < 0)
    => out_adjusted = Ok(out_base.value)

\* C20: an event without timestamp_end_event is a zero-length instant at its
\* start: whatever its duration, it changes the energy by at most the base
\* energy of the hour-aligned sub-interval that contains its start, so a stop
\* of 7200 s without an end timestamp does not remove two hours of energy.
C20_MissingEndIsInstant ==
    (/\ SingleClassified
     /\ in_events[1].timestamp_end_event.kind = "missing")
    => LET event_start == in_events[1].timestamp_start_event.t
           sub_interval == _calculate_base_energy(in_type,
                                                  NextHour(event_start) - Hour,
                                                  NextHour(event_start))
       IN  /\ out_adjusted.status = "ok"
           /\ Abs(out_adjusted.value - out_base.value) <= sub_interval

-----------------------------------------------------------------------------
(* Further properties of _calculate_base_energy (SpecBase) *)

\* C15: _calculate_base_energy with a window whose end is before its start
\* fails with an error for every resource type (it returns no energy), and
\* with a zero-length window it returns 0.
C15_InvalidWindowFails ==
    pc = "base"
    => /\ (in_end < in_start => out_base.status = "raise")
       /\ (in_end = in_start => out_base = Ok(0))

-----------------------------------------------------------------------------
(* Further properties of generate_textual_report (SpecReport) *)

\* the identifiers of the per-resource list
DetailIds == {resource_details.value[i].id : i \in 1..Len(resource_details.value)}

\* C16: the identifiers of the per-resource list are pairwise distinct, every
\* resource of the store appears in it exactly once, and every other entry is
\* named "{type}_{n}" with every smaller number of the type taken as well
\* (n counts upward from 1 and skips the identifiers already used).
C16_SynthesizedIdsDistinct ==
    pc = "textual"
    => LET details == resource_details.value
       IN  /\ \A i, j \in 1..Len(details) : i # j => details[i].id # details[j].id
           /\ \A r \in DOMAIN data :
                  \E i \in 1..Len(details) :
                      /\ details[i].id = r
                      /\ details[i].type = data[r].type
                      /\ details[i].events_count = Len(data[r].events)
           /\ \A i \in 1..Len(details) :
                  details[i].id \notin DOMAIN data
                  => \E n \in 1..Len(details) :
                         /\ details[i].id = SynthId(details[i].type, n)
                         /\ details[i].events_count = 0
                         /\ \A m \in 1..(n - 1) :
                                SynthId(details[i].type, m) \in DetailIds

\* C16 witness: the store holds "server_2" but neither "server_1" nor
\* "server_3", and the list holds all three, "server_1" and "server_3" as
\* synthesized instances.
C16_Witness ==
    /\ pc = "textual"
    /\ "server_2" \in DOMAIN data
    /\ "server_1" \notin DOMAIN data
    /\ "server_3" \notin DOMAIN data
    /\ {"server_1", "server_2", "server_3"} \subseteq DetailIds
    /\ Len(resource_details.value) = Cardinality(DetailIds)

-----------------------------------------------------------------------------
(* The accounting window (SpecAdjust) *)

\* C21: the accounting window is the half-open interval [start, end): an
\* event that starts exactly at the end of the window, or before its start,
\* is dropped by _filter_events_by_date_range and changes no energy in
\* _adjust_energy_for_events.
C21_HalfOpenWindow ==
    (/\ pc = "adjusted"
     /\ Len(in_events) = 1
     /\ in_events[1].timestamp_start_event.kind = "iso"
     /\ in_events[1].duration_event.kind = "num"
     /\ ~(/\ in_start <= in_events[1].timestamp_start_event.t
          /\ in_events[1].timestamp_start_event.t < in_end))
    => /\ out_adjusted = Ok(out_base.value)
       /\ FilteredEvents(in_events, in_start, in_end) = <<>>

-----------------------------------------------------------------------------
(* Events that do not parse (SpecAdjust) *)

\* an event whose duration or one of whose timestamps does not parse
Malformed(e) ==
    \/ e.duration_event.kind \in {"bad", "inf"}
    \/ e.timestamp_start_event.kind \in {"bad", "nonstr"}
    \/ e.timestamp_end_event.kind \in {"bad", "nonstr"}

\* C22: an event with an unparsable timestamp or duration (non-ISO text, a
\* timestamp that is no string, a duration such as "inf") never raises out of
\* _filter_events_by_date_range or _adjust_energy_for_events: that event alone
\* is skipped, and the result is the one of the remaining events.
C22_ParseErrorsSkipped ==
    (/\ pc = "adjusted"
     /\ \A i \in 1..Len(in_events) : in_events[i].event_type # None)
    => LET remaining == SelectSeq(in_events, LAMBDA e : ~Malformed(e))
           stored == [r \in {"server_1"} |-> [type |-> in_type, events |-> in_events]]
       IN  /\ out_adjusted.status = "ok"
           /\ out_adjusted = _adjust_energy_for_events(out_base.value, in_type,
                                                       remaining, in_start, in_end)
           /\ _filter_events_by_date_range(stored, in_start, in_end).status = "ok"

-----------------------------------------------------------------------------
(* The files of a run (SpecRun) *)

\* C23: the document written to the output file by generate_co2_report holds
\* the textual_report field: the file and the returned document have the same
\* set of fields.
C23_FileHoldsTextualReport ==
    pc = "returned"
    => /\ "textual_report" \in DOMAIN output_file.value
       /\ DOMAIN output_file.value = DOMAIN report.value

\* C24: process_input_file persists the store once and only after the last
\* add_event of the run: Database.save is never called while events of the
\* document are still to be added, and a run that aborts during ingestion
\* has written nothing to the store file.
C24_SavedOnceAtEnd ==
    /\ saved <= 1
    /\ saved = 1 => in_events = <<>>
    /\ (pc = "failed" /\ in_events # <<>>) => saved = 0
    /\ pc \notin {"ingest", "failed"} => saved = 1

\* C24 witness: the run has added the events of two resources and then saved
\* the store.
C24_Witness ==
    /\ pc = "saved"
    /\ saved = 1
    /\ in_events = <<>>
    /\ DOMAIN data = {"internet_gateway_1", "server_1"}

-----------------------------------------------------------------------------
(* Further properties of Database.add_event (Spec) *)

\* C25: updated_at advances only on an insert or a change of content:
\* add_event with an event identical to the one stored under the same
\* event_id leaves updated_at and the stored events unchanged.
C25_UpdatedAtOnlyOnChange ==
    [][\A resource_id \in ResourceIds, resource_type \in ResourceTypes,
          event \in IngestPool :
          (/\ AddEvent(resource_id, resource_type, event)
           /\ resource_id \in DOMAIN data
           /\ EventExists(data[resource_id].events, event.event_id)
           /\ data[resource_id].events[FirstIndex(data[resource_id].events,
                                                  event.event_id)] = event)
          => /\ data'[resource_id].events = data[resource_id].events
             /\ data'[resource_id].updated_at = data[resource_id].updated_at]_vars

\* C25 as the code has it: every add_event sets the resource's updated_at to
\* the time of the call, also when the event is identical to the one stored
\* under its event_id; in that case the stored events are unchanged.
C25_UpdatedAtAlwaysBumped ==
    [][\A resource_id \in ResourceIds, resource_type \in ResourceTypes,
          event \in IngestPool :
          AddEvent(resource_id, resource_type, event)
          => /\ data'[resource_id].updated_at = now
             /\ (/\ resource_id \in DOMAIN data
                 /\ EventExists(data[resource_id].events, event.event_id)
                 /\ data[resource_id].events[FirstIndex(data[resource_id].events,
                                                        event.event_id)] = event)
                => data'[resource_id].events = data[resource_id].events]_vars

\* C25 witness: a resource holds one event, stored with the stored_at it came
\* with, and its updated_at is later than its created_at: the same event was
\* added again.
C25_Witness ==
    \E resource_id \in DOMAIN data :
        /\ Len(data[resource_id].events) = 1
        /\ data[resource_id].events[1] \in IngestPool
        /\ data[resource_id].updated_at > data[resource_id].created_at

-----------------------------------------------------------------------------
(* The risk ranking of generate_co2_reduction_advice (SpecReport) *)

\* the identifiers of the risk ranking
RankedIds == {resource_summary.value[k].id : k \in 1..Len(resource_summary.value)}

\* the probability of entry x is larger than 0.3
Above03(x) == x.failure_probability.num * 10 > 3 * x.failure_probability.den * 100

\* C26: the risk ranking holds only resources whose average
\* failure_probability (over the events that carry one) is strictly greater
\* than 0.3, in order of non-increasing probability, and at most 5 of them:
\* the 5 with the highest probability when there are more.  Every entry is a
\* resource of the store with events; a resource without events and every
\* synthesized instance has probability 0 and is not in it.
C26_RiskRanking ==
    pc = "textual"
    => LET ranking == resource_summary.value
           details == resource_details.value
           n == Len(ranking)
       IN  /\ n <= 5
           /\ \A k \in 1..n :
                  /\ Above03(ranking[k])
                  /\ ranking[k].id \in DOMAIN data
                  /\ data[ranking[k].id].events # <<>>
                  /\ ranking[k].failure_probability
                         = AvgFailureProb(data[ranking[k].id].events)
           /\ \A k \in 1..(n - 1) : ProbGeq(ranking[k], ranking[k + 1])
           /\ \A j, k \in 1..n : j # k => ranking[j].id # ranking[k].id
           /\ \A i \in 1..Len(details) :
                  /\ details[i].events_count = 0
                     => /\ details[i].failure_probability.num = 0
                        /\ details[i].id \notin RankedIds
                  /\ (Above03(details[i]) /\ details[i].id \notin RankedIds)
                     => /\ n = 5
                        /\ ProbGeq(ranking[5], details[i])

\* C26 witness: more than five resources are above 0.3; the ranking holds
\* five of them, the first with a higher probability than the last, and
\* leaves one out.
C26_Witness ==
    /\ pc = "textual"
    /\ Len(resource_summary.value) = 5
    /\ ~ProbGeq(resource_summary.value[5], resource_summary.value[1])
    /\ \E i \in 1..Len(resource_details.value) :
           /\ Above03(resource_details.value[i])
           /\ resource_details.value[i].id \notin RankedIds

-----------------------------------------------------------------------------
(* two_agents_version/agent_monitor.py: the energy calculation of the      *)
(* two-agent variant.  Modifiers are in tenths; the products of floating    *)
(* point numbers are taken as exact.                                        *)

\* RESOURCES[resource_type][field]
RESOURCES(resource_type, field) ==
    CASE resource_type = "server" ->
            [count |-> 10, day_power |-> 100, night_power |-> 70][field]
      [] resource_type = "workstation" ->
            [count |-> 20, day_power |-> 60, night_power |-> 0][field]
      [] resource_type = "automate" ->
            [count |-> 5, day_power |-> 300, night_power |-> 0][field]
      [] resource_type = "internet_gateway" ->
            [count |-> 1, day_power |-> 50, night_power |-> 50][field]

\* EVENT_MODIFIERS.get(etype, 0), in tenths
EVENT_MODIFIERS(etype) ==
    CASE etype \in {"cpu_overflow", "cpu_overload"} -> 10
      [] etype = "cpu_max_heat_threshold" -> 8
      [] etype = "fan_failure" -> 5
      [] etype \in {"software_update", "operating_system_update"} -> 0 - 3
      [] etype = "software_service_failure" -> 0 - 7
      [] etype \in {"operating_system_failure", "hardware_failure",
                    "hardware_maintenance_stop"} -> 0 - 10
      [] OTHER -> 0

\* the period of the report: seven days that start and end at midnight
MonitorStart == Day
MonitorEnd == MonitorStart + Week

\* lines 217-234: the events of a resource that parse; any exception (a key
\* that is missing, a timestamp that is no ISO string, a duration that is
\* no finite number) drops the event
ParsedEvents(res_events_raw) ==
    LET parses(e) == /\ e.timestamp_start_event.kind = "iso"
                     /\ e.duration_event.kind = "num"
                     /\ e.event_type # None
        kept == SelectSeq(res_events_raw, parses)
    IN  [k \in 1..Len(kept) |->
            [start_dt |-> kept[k].timestamp_start_event.t,
             end_dt |-> kept[k].timestamp_start_event.t + kept[k].duration_event.secs,
             event_type |-> kept[k].event_type]]

\* the event is active at the start of the interval
ActiveAtStart(current_time, next_hour, event) ==
    event.start_dt <= current_time /\ current_time < event.end_dt

\* line 129: max(current_time, evt_start) < min(next_hour, evt_end)
Overlaps(current_time, next_hour, event) ==
    (IF current_time > event.start_dt THEN current_time ELSE event.start_dt)
        < (IF next_hour < event.end_dt THEN next_hour ELSE event.end_dt)

\* lines 118-158: modifier_sum over the events from the i-th on
RECURSIVE ModifierSum(_, _, _, _)
ModifierSum(events, i, current_time, next_hour) ==
    IF i > Len(events) THEN 0
    ELSE (IF Overlaps(current_time, next_hour, events[i])
          THEN EVENT_MODIFIERS(events[i].event_type)
          ELSE 0)
         + ModifierSum(events, i + 1, current_time, next_hour)

\* lines 104-165: the energy of the interval from current_time to next_hour
IntervalEnergy(resource_type, current_time, next_hour, events) ==
    LET hour == HourOf(current_time)
        is_production == 8 <= hour /\ hour < 20
        base_power == IF is_production
                      THEN RESOURCES(resource_type, "day_power")
                      ELSE RESOURCES(resource_type, "night_power")
        modifier_sum == ModifierSum(events, 1, current_time, next_hour)
        effective_modifier == IF modifier_sum < 0 - 10 THEN 0 - 10 ELSE modifier_sum
    IN  Energy(base_power * (10 + effective_modifier), next_hour - current_time, 1, 10)

\* the while loop of lines 96-167, run from current_time until `stop`
RECURSIVE IntervalWalk(_, _, _, _, _)
IntervalWalk(resource_type, current_time, stop, end_dt, events) ==
    IF current_time < stop
    THEN LET plus_hour == current_time + Hour
             next_hour == IF plus_hour > end_dt THEN end_dt ELSE plus_hour
         IN  IntervalEnergy(resource_type, current_time, next_hour, events)
             + IntervalWalk(resource_type, next_hour, stop, end_dt, events)
    ELSE 0

\* the same loop, evaluated 24 iterations at a time
RECURSIVE DayWalk(_, _, _, _)
DayWalk(resource_type, current_time, end_dt, events) ==
    IF current_time < end_dt
    THEN LET plus_day == current_time + Day
             stop == IF plus_day > end_dt THEN end_dt ELSE plus_day
         IN  IntervalWalk(resource_type, current_time, stop, end_dt, events)
             + DayWalk(resource_type, stop, end_dt, events)
    ELSE 0

calculate_energy_for_interval(resource_type, start_dt, end_dt, events) ==
    DayWalk(resource_type, start_dt, end_dt, events)

\* lines 199-202: the names "{r_type}_{i}" of the inventory
Inventory ==
    {<<r_type, i>> \in ResourceTypes \X (1..20) : i <= RESOURCES(r_type, "count")}

\* line 245: summary_data["total_energy_wh"] += energy_wh, over the names
\* from the i-th on
RECURSIVE TotalEnergyWh(_, _, _)
TotalEnergyWh(names, i, resources) ==
    IF i > Len(names) THEN 0
    ELSE resources[names[i]].energy_wh + TotalEnergyWh(names, i + 1, resources)

\* lines 184-248: summary_data; the type of a name is the one it starts
\* with, and co2_kg is energy_wh times a constant
process_energy_calculations(events_data) ==
    LET names == {SynthId(k[1], k[2]) : k \in Inventory}
        TypeOf(res_name) == (CHOOSE k \in Inventory : SynthId(k[1], k[2]) = res_name)[1]
        res_events_raw(res_name) == IF res_name \in DOMAIN events_data
                                    THEN events_data[res_name].events
                                    ELSE <<>>
        resources ==
            [res_name \in names |->
                [type |-> TypeOf(res_name),
                 energy_wh |-> calculate_energy_for_interval(
                                   TypeOf(res_name), MonitorStart, MonitorEnd,
                                   ParsedEvents(res_events_raw(res_name)))]]
    IN  [resources |-> resources,
         total_energy_wh |-> TotalEnergyWh(SetToSeq(names), 1, resources)]

-----------------------------------------------------------------------------
(* SpecMonitor: process_energy_calculations on an event document with one  *)
(* resource                                                                *)

MonitorIds == {"server_1", "server_11", "pc_7"}

MonitorEventLists ==
    {<<>>} \cup {<<e>> : e \in CorePool \cup WidePool}
    \cup { <<Event("e1", "hardware_maintenance_stop", Num(TwoHours), Iso(T10), NoTs),
             Event("e2", "hardware_failure", Num(TwoHours), Iso(T10 + Hour), NoTs)>>,
           <<Event("e1", "cpu_overflow", Num(TwoHours), Iso(T10), NoTs),
             Event("e2", "software_update", Num(TwoHours), Iso(T10 + 1800), NoTs)>> }

MonitorDocuments ==
    { [r \in {id} |->
          [type |-> IF id = "pc_7" THEN "workstation" ELSE "server",
           events |-> events]] : id \in MonitorIds, events \in MonitorEventLists }

InitMonitor ==
    /\ data \in MonitorDocuments
    /\ now = StartOfRun
    /\ saved = 0
    /\ pc = "monitor"
    /\ FunctionIdle
    /\ ReportIdle
    /\ LlmIdle

\* agent_monitor.py line 296
ProcessEnergyCalculations ==
    /\ pc = "monitor"
    /\ energy_data' = process_energy_calculations(data)
    /\ pc' = "summary"
    /\ UNCHANGED <<llm_vars, data, now, saved, in_type, in_start, in_end,
                   in_events, out_base, out_adjusted, week_events, acc,
                   resource_details>>

NextMonitor == ProcessEnergyCalculations

SpecMonitor == InitMonitor /\ [][NextMonitor]_vars

-----------------------------------------------------------------------------
(* Properties of the two-agent variant (SpecMonitor) *)

\* C27: process_energy_calculations never drops a historical resource: every
\* resource of the event document, whatever its identifier, is in the
\* summary's resources, with its events applied to its energy.
C27_NoHistoricalResourceDropped ==
    pc = "summary"
    => \A r \in DOMAIN data :
           /\ r \in DOMAIN energy_data.resources
           /\ energy_data.resources[r].energy_wh
                  = calculate_energy_for_interval(data[r].type, MonitorStart,
                                                  MonitorEnd,
                                                  ParsedEvents(data[r].events))

\* the document holds "server_1" with one hardware_maintenance_stop of 7200
\* seconds that starts in the window at an hour of day in [8, 20)
ServerStop ==
    /\ DOMAIN data = {"server_1"}
    /\ Len(data["server_1"].events) = 1
    /\ data["server_1"].events[1].event_type = "hardware_maintenance_stop"
    /\ data["server_1"].events[1].duration_event = Num(TwoHours)
    /\ data["server_1"].events[1].timestamp_start_event.kind = "iso"
    /\ data["server_1"].events[1].timestamp_start_event.t >= MonitorStart
    /\ data["server_1"].events[1].timestamp_start_event.t < MonitorEnd - TwoHours
    /\ HourOf(data["server_1"].events[1].timestamp_start_event.t) \in 8..19

-----------------------------------------------------------------------------
(* The windows of one report (SpecReport) *)

\* C29: within one generate_co2_report run the filter and the energy
\* calculation use the same accounting window: every event kept by
\* _filter_events_by_date_range also passes the window test of
\* _adjust_energy_for_events, whose window calculate_weekly_energy computes
\* from the clock, even when the clock advances between the two steps.
C29_OneWindowPerRun ==
    (pc \in {"energy", "textual"})
    => \A r \in DOMAIN week_events.value :
           \A i \in 1..Len(week_events.value[r].events) :
               LET event_start == week_events.value[r].events[i].timestamp_start_event.t
               IN  /\ energy_data.period.start <= event_start
                   /\ event_start <= energy_data.period.end

\* the event without the stamp of its storage
Unstamped(event) == [event EXCEPT !.stored_at = NoTs]

\* C30: add_event never loses a distinct event: a stored event with another
\* event_id than the added one, or one that like the added one has no
\* event_id and differs from it in content, is still stored after the call,
\* and the number of events of the resource never decreases.
C30_NoDistinctEventLost ==
    [][\A resource_id \in ResourceIds, resource_type \in ResourceTypes,
          event \in IngestPool :
          (/\ AddEvent(resource_id, resource_type, event)
           /\ resource_id \in DOMAIN data)
          => LET old == data[resource_id].events
                 new == data'[resource_id].events
             IN  /\ Len(new) >= Len(old)
                 /\ \A j \in 1..Len(old) :
                        (\/ old[j].event_id # event.event_id
                         \/ /\ event.event_id = None
                            /\ Unstamped(old[j]) # Unstamped(event))
                        => \E k \in 1..Len(new) : new[k] = old[j]]_vars

====
